---------------------------- MODULE Spec2Model ----------------------------
(***************************************************************************)
(* A model of the twinkle-lisp virtual machine (src/src/lisp.c).           *)
(*                                                                         *)
(* The module holds several specifications over one set of variables; each *)
(* specification drives one part of the VM and leaves the variables of the *)
(* other parts at their initial values:                                    *)
(*                                                                         *)
(*   Spec           the evaluator: lisp_vm_run, eval_expr and the forms    *)
(*   SpecSubstring  the `substring' primitive of apply_primitive           *)
(*   SpecGC         the object pool, new_obj and the garbage collector     *)
(*   SpecMut        the primitives that change arrays, buffers,            *)
(*                  dictionaries and bindings, across two VMs              *)
(*   SpecSym        lisp_make_symbol and the symbol dictionaries           *)
(*   SpecPort       lisp_port_close, lisp_stream_close and delete_obj      *)
(*   SpecSched      twk_sched, thread_main and the scheduler loop (twk.c)  *)
(*   SpecFifo       fifo_write and fifo_read on two threads (fifo.c)       *)
(*   SpecMbox       senders and the reader of a process mailbox (twk.c)    *)
(*   SpecRead       lisp_read, lisp_port_print and lisp_read again        *)
(*   SpecDict       lisp_dict_assoc and the dictionary primitives          *)
(*   SpecEnv        define, defconst and set! on a chain of environments   *)
(*   SpecDepth      the evaluator on programs that nest up to MAX_DEPTH    *)
(*   SpecOut        the write operations of an output port on a stream     *)
(*   SpecIn         fill, getc, unget, drain and seek on an input port     *)
(*   SpecArgs       the evaluator on procedures applied to 0.. arguments   *)
(*   SpecFam        a process, its spawned children, workers, scheduler    *)
(*   SpecArr        the item blocks of arrays and dictionaries             *)
(*   SpecWake       workers waiting on runnable_notify, twk_sched callers  *)
(*   SpecWakeEnd    the same, with activations that all return             *)
(*   SpecDone       the end of a parent's activation, shutdown_process     *)
(*   SpecTable      twk_create_process, twk_get_process, the process table *)
(*   SpecFree       the lifetime of a mailbox FIFO across three threads    *)
(***************************************************************************)
EXTENDS Integers, Sequences, FiniteSets, TLC

VARIABLES
    \* --- the evaluator (struct Lisp_VM and the C stack that runs it) ---
    stack,      \* vm->stack: the value stack, a sequence of objects
    env,        \* vm->env: the id of the current environment
    eval_level, \* vm->eval_level
    catch,      \* vm->catch: the index in `frames' of the frame whose jmp_buf
                \* is the active trap, 0 for NULL
    envs,       \* the Lisp_Env objects: id -> [parent, bindings, no_def, vm]
    frames,     \* the C call stack: one record per active C function
    out,        \* the objects written to vm->output, in order
    err,        \* the last message written to vm->error
    status,     \* "running", "done" (lisp_vm_run returned true), "failed"
                \* (returned false) or "aborted" (an assert failed)
    input,      \* the forms not yet read from vm->input
    last_eval,  \* vm->last_eval
    io,         \* [input, output]: the ports vm->input and vm->output
    nprocs,     \* the number of Lisp_Proc objects made so far
    ndebug,     \* the build: TRUE when compiled with NDEBUG (asserts off)
    prog,       \* the program given to the VM: [kind, ...]
    hist,       \* history: what the last throw, the last lisp_eval_core and
                \* the last catch did (read by the properties only)
    \* --- substring ---
    sub_in,     \* substring: the arguments of the call, [s, start, hasEnd, end]
    sub_res,    \* substring: the outcome of the call, or NoResult
    \* --- the object pool and the garbage collector ---
    g_heap,     \* the objects ever allocated: object o is g_heap[o]
    g_pool,     \* vm->pool: the live objects, in allocation order
    g_cap,      \* vm->pool->cap
    g_vm,       \* the reference fields of struct Lisp_VM, the root set
    g_freed,    \* the objects delete_obj has freed
    g_log,      \* the collections the last operation started (history)
    g_steps,    \* the number of operations run so far
    \* --- ownership and immutability ---
    m_objs,     \* the arrays, buffers and dictionaries: name -> object
    m_ports,    \* the output ports made by open-output-buffer
    m_env,      \* the environment chain of the current VM, innermost first
    m_last,     \* what the last primitive did (read by the properties only)
    m_status,   \* "running", "aborted" (an assert failed) or "undefined"
    m_ndebug,   \* the build: TRUE when compiled with NDEBUG
    m_steps,    \* the number of primitives applied so far
    \* --- symbols ---
    sy_dicts,   \* vm->symbols of the parent VM and of the child VM
    sy_objs,    \* the symbols lisp_symbol_new has made: [name, vm]
    sy_cur,     \* the VM that runs: "parent", then "child"
    sy_got,     \* what lisp_make_symbol has returned so far, to whom and how
    sy_freed,   \* the symbols gc has deleted
    sy_steps,   \* the number of operations run so far
    \* --- ports and streams ---
    p_port,     \* the port: [closed, stream, out, pending]; stream tells
                \* whether port->stream is set, pending is iobuf->length
    p_stream,   \* the stream: [context, cls]; context tells whether
                \* stream->context is set
    p_pool,     \* the port, its stream and its buffer in the order of
                \* vm->pool; empty once gc has deleted them
    p_io,       \* the calls of the stream class so far: the number of calls
                \* of close and the sizes given to write
    p_last,     \* what the last operation did (read by the properties only)
    p_calls,    \* the number of explicit closes so far
    p_freed,    \* the objects deleted, and those of them used afterwards
    \* --- the scheduler ---
    sc_state,   \* proc->state of the process
    sc_mbox,    \* the number of messages in its mailbox
    sc_thr,     \* worker -> [pc, ret]: where it is in thread_main
    sc_call,    \* caller -> where it is in twk_sched
    \* --- the FIFO ---
    f_fifo,     \* struct FIFO: [wpos, rpos, buffer]
    f_w,        \* the thread in fifo_write: [pc, n, i, data]
    f_r,        \* the thread in fifo_read: [pc, n, i, data]
    f_in,       \* the bytes fifo_write has accepted, in order
    f_out,      \* the bytes fifo_read has returned, in order
    \* --- the mailbox ---
    mb_proc,    \* struct twk_process: [state, mbox, mbox_last_wpos, mbox_overflow]
    mb_lock,    \* proc->mbox_lock: 0, or the thread that holds it
    mb_snd,     \* the senders: [pc, msg, len, parts, ok]
    mb_rd,      \* the process in mbox_read: [pc, size]
    mb_hist,    \* [msgs, recv]: the outcome of each post, the bytes read
    \* --- the reader and the printer ---
    rp_pc,      \* text, read, printed, done; or rejected
    rp_src,     \* the text given to lisp_read
    rp_val,     \* the outcome of lisp_read on it
    rp_out,     \* what lisp_port_print wrote
    rp_back,    \* the outcome of lisp_read on rp_out
    \* --- dictionaries ---
    d_pairs,    \* the pairs lisp_dict_add has made: [car, cdr]
    d_dict,     \* the dictionary: [items, cap, table]
    d_gone,     \* the keys removed and not set again since
    d_last,     \* what the last primitive did (read by the properties only)
    d_steps,    \* the number of primitives applied so far
    \* --- define and set! ---
    en_envs,    \* the Lisp_Env objects: id -> [parent, bindings, no_def, vm]
    en_env,     \* vm->env: the id of the current environment
    en_last,    \* what the last form did (read by the properties only)
    en_steps,   \* the number of forms so far
    \* --- output ports ---
    o_port,     \* the output port: closed, stream, no_buf, max_output, byte_count, buf, cap
    o_sent,     \* the bytes handed to the write callback of the stream
    o_last,     \* the last operation on the port (read by the properties only)
    o_steps,    \* the number of operations so far
    \* --- input ports ---
    i_port,     \* the input port: closed, stream, shared, pos, len, cap, buf, byte_count
    i_src,      \* the bytes the stream can still deliver
    i_last,     \* the last operation on the port (read by the properties only)
    i_steps,    \* the number of operations so far
    \* --- spawned processes ---
    fa_proc,    \* process -> its state, its run function, its messages
    fa_children, \* the children of process 0, the newest first
    fa_thr,     \* worker -> its place in thread_main and its process
    fa_hist,    \* activations of process 0 begun and ended, births, posts
    \* --- arrays and dictionaries ---
    ar_obj,     \* the array or dictionary: kind, slots of its block, cap, count
    ar_build,   \* the build: the size of a pointer, asserts compiled out
    ar_last,    \* the last operation and the items it wrote
    ar_steps,   \* the number of operations so far
    \* --- workers waiting for a runnable process ---
    wk_state,   \* slot -> proc->state
    wk_mbox,    \* slot -> the number of messages in proc->mbox
    wk_last,    \* the static variable last of find_runnable
    wk_lock,    \* runnable_lock: the worker that holds it, or none
    wk_thr,     \* worker -> [pc, proc]: where it is in thread_main
    wk_call,    \* caller -> [pc, proc]: where it is in twk_sched
    wk_hist,    \* posts made, posts that found the process busy, last waker
    \* --- the end of a parent process ---
    pd_state,   \* proc->state of the parent
    pd_kids,    \* the children linked in proc->children
    pd_kstate,  \* child -> proc->state of the child
    pd_w,       \* the worker of the parent: [pc, ret, target]
    pd_hist,    \* exit was called, the activation failed, the race happened
    \* --- the process table ---
    pt_state,   \* slot -> processes[slot].state, NONE or not
    pt_pid,     \* slot -> processes[slot].pid
    pt_next,    \* next_pid
    pt_call,    \* caller of twk_create_process -> [pc, slot, pid]
    pt_held,    \* slot -> the callers it was handed to since its last shutdown
    \* --- the lifetime of a mailbox FIFO ---
    mf_state,   \* proc->state
    mf_mbox,    \* proc->mbox: a FIFO or NullFifo
    mf_freed,   \* the FIFOs released by fifo_delete
    mf_lock,    \* the holder of proc->mbox_lock
    mf_thr,     \* thread -> [pc, reg]
    mf_child,   \* the process has a child
    mf_hist     \* FIFOs made; threads that used a deleted FIFO, a NULL one

evars == <<stack, env, eval_level, catch, envs, frames, out, err, status,
           input, last_eval, io, nprocs, ndebug, prog, hist>>

subvars == <<sub_in, sub_res>>

gcvars == <<g_heap, g_pool, g_cap, g_vm, g_freed, g_log, g_steps>>

mutvars == <<m_objs, m_ports, m_env, m_last, m_status, m_ndebug, m_steps>>

symvars == <<sy_dicts, sy_objs, sy_cur, sy_got, sy_freed, sy_steps>>

portvars == <<p_port, p_stream, p_pool, p_io, p_last, p_calls, p_freed>>

schedvars == <<sc_state, sc_mbox, sc_thr, sc_call>>

fifovars == <<f_fifo, f_w, f_r, f_in, f_out>>

mboxvars == <<mb_proc, mb_lock, mb_snd, mb_rd, mb_hist>>

readvars == <<rp_pc, rp_src, rp_val, rp_out, rp_back>>

dictvars == <<d_pairs, d_dict, d_gone, d_last, d_steps>>

envvars == <<en_envs, en_env, en_last, en_steps>>

outvars == <<o_port, o_sent, o_last, o_steps>>

invars == <<i_port, i_src, i_last, i_steps>>

famvars == <<fa_proc, fa_children, fa_thr, fa_hist>>

arrvars == <<ar_obj, ar_build, ar_last, ar_steps>>

wakevars == <<wk_state, wk_mbox, wk_last, wk_lock, wk_thr, wk_call, wk_hist>>

donevars == <<pd_state, pd_kids, pd_kstate, pd_w, pd_hist>>

tablevars == <<pt_state, pt_pid, pt_next, pt_call, pt_held>>

freevars == <<mf_state, mf_mbox, mf_freed, mf_lock, mf_thr, mf_child, mf_hist>>

vars == <<evars, subvars, gcvars, mutvars, symvars, portvars, schedvars,
          fifovars, mboxvars, readvars, dictvars, envvars, outvars, invars,
          famvars, arrvars, wakevars, donevars, tablevars, freevars>>

\* What the actions of one part leave alone.
notEval == <<subvars, gcvars, mutvars, symvars, portvars, schedvars, fifovars,
             mboxvars, readvars, dictvars, envvars, outvars, invars, famvars,
             arrvars, wakevars, donevars, tablevars, freevars>>
notSub == <<evars, gcvars, mutvars, symvars, portvars, schedvars, fifovars,
            mboxvars, readvars, dictvars, envvars, outvars, invars, famvars,
            arrvars, wakevars, donevars, tablevars, freevars>>
notGc == <<evars, subvars, mutvars, symvars, portvars, schedvars, fifovars,
           mboxvars, readvars, dictvars, envvars, outvars, invars, famvars,
           arrvars, wakevars, donevars, tablevars, freevars>>
notMut == <<evars, subvars, gcvars, symvars, portvars, schedvars, fifovars,
            mboxvars, readvars, dictvars, envvars, outvars, invars, famvars,
            arrvars, wakevars, donevars, tablevars, freevars>>
notSym == <<evars, subvars, gcvars, mutvars, portvars, schedvars, fifovars,
            mboxvars, readvars, dictvars, envvars, outvars, invars, famvars,
            arrvars, wakevars, donevars, tablevars, freevars>>
notPort == <<evars, subvars, gcvars, mutvars, symvars, schedvars, fifovars,
             mboxvars, readvars, dictvars, envvars, outvars, invars, famvars,
             arrvars, wakevars, donevars, tablevars, freevars>>
notSched == <<evars, subvars, gcvars, mutvars, symvars, portvars, fifovars,
              mboxvars, readvars, dictvars, envvars, outvars, invars, famvars,
              arrvars, wakevars, donevars, tablevars, freevars>>
notFifo == <<evars, subvars, gcvars, mutvars, symvars, portvars, schedvars,
             mboxvars, readvars, dictvars, envvars, outvars, invars, famvars,
             arrvars, wakevars, donevars, tablevars, freevars>>
notMbox == <<evars, subvars, gcvars, mutvars, symvars, portvars, schedvars,
             fifovars, readvars, dictvars, envvars, outvars, invars, famvars,
             arrvars, wakevars, donevars, tablevars, freevars>>
notRead == <<evars, subvars, gcvars, mutvars, symvars, portvars, schedvars,
             fifovars, mboxvars, dictvars, envvars, outvars, invars, famvars,
             arrvars, wakevars, donevars, tablevars, freevars>>
notDict == <<evars, subvars, gcvars, mutvars, symvars, portvars, schedvars,
             fifovars, mboxvars, readvars, envvars, outvars, invars, famvars,
             arrvars, wakevars, donevars, tablevars, freevars>>
notEnv == <<evars, subvars, gcvars, mutvars, symvars, portvars, schedvars,
            fifovars, mboxvars, readvars, dictvars, outvars, invars, famvars,
            arrvars, wakevars, donevars, tablevars, freevars>>
notOut == <<evars, subvars, gcvars, mutvars, symvars, portvars, schedvars,
            fifovars, mboxvars, readvars, dictvars, envvars, invars, famvars,
            arrvars, wakevars, donevars, tablevars, freevars>>
notIn == <<evars, subvars, gcvars, mutvars, symvars, portvars, schedvars,
           fifovars, mboxvars, readvars, dictvars, envvars, outvars, famvars,
           arrvars, wakevars, donevars, tablevars, freevars>>
notFam == <<evars, subvars, gcvars, mutvars, symvars, portvars, schedvars,
            fifovars, mboxvars, readvars, dictvars, envvars, outvars, invars,
            arrvars, wakevars, donevars, tablevars, freevars>>
notArr == <<evars, subvars, gcvars, mutvars, symvars, portvars, schedvars,
            fifovars, mboxvars, readvars, dictvars, envvars, outvars, invars,
            famvars, wakevars, donevars, tablevars, freevars>>
notWake == <<evars, subvars, gcvars, mutvars, symvars, portvars, schedvars,
             fifovars, mboxvars, readvars, dictvars, envvars, outvars, invars,
             famvars, arrvars, donevars, tablevars, freevars>>
notDone == <<evars, subvars, gcvars, mutvars, symvars, portvars, schedvars,
             fifovars, mboxvars, readvars, dictvars, envvars, outvars, invars,
             famvars, arrvars, wakevars, tablevars, freevars>>
notTable == <<evars, subvars, gcvars, mutvars, symvars, portvars, schedvars,
              fifovars, mboxvars, readvars, dictvars, envvars, outvars,
              invars, famvars, arrvars, wakevars, donevars, freevars>>
notFree == <<evars, subvars, gcvars, mutvars, symvars, portvars, schedvars,
             fifovars, mboxvars, readvars, dictvars, envvars, outvars, invars,
             famvars, arrvars, wakevars, donevars, tablevars>>

(***************************************************************************)
(* Generic helpers                                                         *)
(***************************************************************************)
Max(a, b) == IF a > b THEN a ELSE b
Min(a, b) == IF a > b THEN b ELSE a

RECURSIVE Concat(_)
Concat(ss) == IF ss = <<>> THEN <<>> ELSE Head(ss) \o Concat(Tail(ss))

(***************************************************************************)
(* Objects                                                                 *)
(*                                                                         *)
(* An object is a record with its type tag in t.  A pair carries the two   *)
(* flag bits the evaluator sets on pairs (tail_call, is_return) in flag.   *)
(* NIL is the constant pair whose car is `undefined' and whose cdr is NIL. *)
(***************************************************************************)
Num(n)  == [t |-> "num", n |-> n]
Str(s)  == [t |-> "str", s |-> s]
Sym(s)  == [t |-> "sym", s |-> s]
NIL     == [t |-> "nil"]
Cons(a, d) == [t |-> "pair", car |-> a, cdr |-> d, flag |-> "none"]
EnvObj(id) == [t |-> "env", id |-> id]
\* port->out is set for the ports opened for output.
OutputPorts == {"output", "pout"}
Port(name) == [t |-> "port", name |-> name, out |-> name \in OutputPorts]
\* lisp_vm_new: vm->input and vm->output are the standard ports.
StdPorts == [input |-> Port("input"), output |-> Port("output")]
MakeProc(id, e, lambda) == [t |-> "proc", id |-> id, env |-> e, lambda |-> lambda]
\* A native procedure (Lisp_Native_Proc) and the C null pointer.
Native(fn, e) == [t |-> "native", fn |-> fn, env |-> e]
NULL == [t |-> "null"]
\* The end of a line of the input: white space to the reader, the end of what
\* the stream of a terminal (file_stream_gets) puts in the buffer of the port.
NEWLINE == [t |-> "newline"]

LISP_UNDEF      == Sym("undefined")
LISP_TRUE       == Sym("true")
LISP_FALSE      == Sym("false")
LISP_EXPR_MARK  == Sym("*expr-mark*")
LISP_FRAME_MARK == Sym("*frame-mark*")

CAR(p)  == IF p.t = "pair" THEN p.car ELSE LISP_UNDEF
CDR(p)  == IF p.t = "pair" THEN p.cdr ELSE NIL
CADR(p) == CAR(CDR(p))
CDDR(p) == CDR(CDR(p))

\* The list of the elements of a sequence.
RECURSIVE L(_)
L(s) == IF s = <<>> THEN NIL ELSE Cons(Head(s), L(Tail(s)))

RECURSIVE ListLen(_)
ListLen(l) == IF l.t = "pair" THEN 1 + ListLen(l.cdr) ELSE 0

\* The sub-lists of a list, outermost first: l, (cdr l), (cddr l), ...
RECURSIVE Tails(_)
Tails(l) == IF l.t = "pair" THEN <<l>> \o Tails(l.cdr) ELSE <<>>

\* is_list(): follow the cdrs to the end.
RECURSIVE is_list(_)
is_list(o) == IF o.t = "pair" THEN is_list(o.cdr) ELSE o.t = "nil"

\* _symtab: the symbols flagged is_const, is_special, is_primitive.
ConstSymbols ==
    {"&key", "&label", "&optional", "&rest", "*dot*", "*eof*",
     "*expr-mark*", "*frame-mark*", "*mark*", "*stderr*", "*stdin*",
     "*stdout*", "else", "false", "true", "undefined", "unquote",
     "unquote-splicing"}
SpecialSymbols ==
    {"and", "begin", "case", "catch", "cond", "consq", "debug",
     "defconst", "define", "defmacro", "defmethod", "evalq", "if",
     "lambda", "let", "match", "or", "quasiquote", "quote", "return",
     "set!", "with-input", "with-output"}
\* Of the 166 primitive symbols, the ones the programs below use.
PrimitiveSymbols ==
    SpecialSymbols \cup {"+", "-", "=", "list", "print", "throw", "error", "read"}
\* name->buf[0] == '&': the symbols whose name starts with an ampersand.
AmpSymbols == {"&key", "&label", "&optional", "&rest"}

IsConst(o) ==
    CASE o.t = "sym" -> o.s \in ConstSymbols
      [] o.t \in {"num", "str", "nil"} -> TRUE
      [] OTHER -> FALSE
IsPrimitive(o) == o.t = "sym" /\ o.s \in PrimitiveSymbols
IsSpecial(o) == (o.t = "sym" /\ o.s \in SpecialSymbols) \/ o.t = "macro"
HasFlag(o, f) == o.t = "pair" /\ o.flag = f

\* MAX_DEPTH is 1000 in lisp.c; the limit is scaled down to MaxDepth so that
\* a run reaches it.  No program of Spec nests that deep.
MaxDepth == 100
MAX_DEPTH == MaxDepth

(***************************************************************************)
(* The machine state as one record, so that a C function body translates   *)
(* to a composition of the operators below; Commit writes it back.         *)
(***************************************************************************)
S == [stack |-> stack, env |-> env, eval_level |-> eval_level,
      catch |-> catch, envs |-> envs, frames |-> frames, out |-> out,
      err |-> err, status |-> status, input |-> input,
      last_eval |-> last_eval, io |-> io, nprocs |-> nprocs,
      ndebug |-> ndebug, hist |-> hist, jumped |-> FALSE]

Commit(s) ==
    /\ stack' = s.stack
    /\ env' = s.env
    /\ eval_level' = s.eval_level
    /\ catch' = s.catch
    /\ envs' = s.envs
    /\ frames' = s.frames
    /\ out' = s.out
    /\ err' = s.err
    /\ status' = s.status
    /\ input' = s.input
    /\ last_eval' = s.last_eval
    /\ io' = s.io
    /\ nprocs' = s.nprocs
    /\ hist' = s.hist
    /\ UNCHANGED <<ndebug, prog>>

\* lisp_push, lisp_pop, lisp_top.
Push(s, x)  == [s EXCEPT !.stack = Append(@, x)]
Pop(s, n)   == [s EXCEPT !.stack = SubSeq(@, 1, Len(@) - n)]
Top(s, n)   == s.stack[Len(s.stack) - n]
Count(s)    == Len(s.stack)
\* lisp_cons: replace the top two objects by the pair of them.
LispCons(s) == Push(Pop(s, 2), Cons(Top(s, 1), Top(s, 0)))
\* Set a flag bit of the pair at the stack top.
FlagTop(s, f) == [s EXCEPT !.stack[Len(s.stack)].flag = f]

\* The C stack: the running function is the last frame.
Depth(s)     == Len(s.frames)
Frame(s)     == s.frames[Len(s.frames)]
Call(s, fr)  == [s EXCEPT !.frames = Append(@, fr)]
Return(s)    == [s EXCEPT !.frames = SubSeq(@, 1, Len(@) - 1)]
Goto(s, pc)  == [s EXCEPT !.frames[Len(s.frames)].pc = pc]
SetLocal(s, name, v) == [s EXCEPT !.frames[Len(s.frames)][name] = v]

\* A failed assert() ends the process in a build with asserts; a build with
\* NDEBUG goes on.
\* s.jumped tells the rest of the running function that control has left it.
Abort(s, what) ==
    [s EXCEPT !.status = "aborted", !.frames = <<>>, !.err = what,
              !.jumped = TRUE]

\* longjmp(*vm->catch, code): the C stack is cut back to the frame that owns
\* the jmp_buf, whose setjmp returns code.
LongJmp(s, code) ==
    IF s.catch = 0
    THEN Abort(s, "longjmp through a NULL vm->catch")
    ELSE [s EXCEPT !.jumped = TRUE,
                   !.frames =
                      [i \in 1 .. s.catch |->
                          IF i = s.catch
                          THEN [s.frames[i] EXCEPT !.pc = "caught", !.jmp = code]
                          ELSE s.frames[i]]]

\* A variant of throw_error that throws the object without the `error' tag.
throw_error_unwrapped(s, obj) ==
    LongJmp(Push([s EXCEPT !.hist.raised = [code |-> 1, obj |-> obj]], obj), 1)

\* throw_error: (show_callstack and the debug prompt only write to the error
\* port; vm->debug_enabled is off) push the pair (error . obj) and jump to
\* the trap.
throw_error(s, obj) ==
    LET s1 == [s EXCEPT !.hist.raised = [code |-> 1, obj |-> obj]]
    IN LongJmp(LispCons(Push(Push(s1, Sym("error")), obj)), 1)

\* lisp_err: write the message to vm->error, then throw_error(vm, NIL).
lisp_err(s, msg) == throw_error([s EXCEPT !.err = msg], NIL)

(***************************************************************************)
(* Environments                                                            *)
(***************************************************************************)
Binding(name, val) ==
    [name |-> name, val |-> val, is_const |-> FALSE, is_method |-> FALSE]

\* lisp_dict_assoc on an environment's bindings: the index of the first
\* binding of the name, 0 when there is none.
DictAssoc(bindings, name) ==
    IF \E i \in 1 .. Len(bindings) : bindings[i].name = name
    THEN CHOOSE i \in 1 .. Len(bindings) :
            /\ bindings[i].name = name
            /\ \A j \in 1 .. i - 1 : bindings[j].name # name
    ELSE 0

\* lisp_env_assoc: <<environment id, binding index>>, <<0, 0>> for NULL.
RECURSIVE EnvAssoc(_, _, _)
EnvAssoc(es, e, name) ==
    IF e = 0 THEN <<0, 0>>
    ELSE LET i == DictAssoc(es[e].bindings, name)
         IN IF i # 0 THEN <<e, i>> ELSE EnvAssoc(es, es[e].parent, name)

\* lisp_env_new: a new environment of the current VM.
NewEnv(parent, vm) ==
    [parent |-> parent, bindings |-> <<>>, no_def |-> FALSE, vm |-> vm]
lisp_env_new(s, parent) ==
    [s EXCEPT !.envs = Append(@, NewEnv(parent, s.envs[s.env].vm)),
              !.env = Len(s.envs) + 1]

\* lisp_dict_add(vm->env->bindings, name, val)
AddBinding(s, name, val) ==
    [s EXCEPT !.envs[s.env].bindings = Append(@, Binding(name, val))]

\* lisp_getvar: <<found, value>>.
GetVarFound(s, name) ==
    EnvAssoc(s.envs, s.env, name.s)[1] # 0 \/ IsPrimitive(name)
GetVarValue(s, name) ==
    LET a == EnvAssoc(s.envs, s.env, name.s)
    IN IF a[1] # 0 THEN s.envs[a[1]].bindings[a[2]].val ELSE name

\* lisp_defvar.  The binding it made or changed is left in s.defd as
\* <<environment, index>> (the Lisp_Pair* it returns).
lisp_defvar(s, name, value) ==
    IF IsConst(name) /\ ~s.ndebug
    THEN Abort(s, "lisp_defvar: assert(!name->obj.is_const)")
    ELSE LET i == DictAssoc(s.envs[s.env].bindings, name.s)
         IN IF i = 0
            THEN AddBinding(s, name.s, value)
            ELSE IF s.envs[s.env].bindings[i].is_const
                 THEN lisp_err(s, "Can not redefine constant")
                 ELSE [s EXCEPT !.envs[s.env].bindings[i].val = value]

\* lisp_setvar without its test of env->bindings->vm: the mutation of
\* lisp_setvar.
lisp_setvar_any_vm(s, name, value) ==
    LET a == EnvAssoc(s.envs, s.env, name.s)
    IN IF a[1] = 0
       THEN lisp_err(s, "Undefined variable")
       ELSE IF s.envs[a[1]].bindings[a[2]].is_const
            THEN lisp_err(s, "Can not modify constant")
            ELSE [s EXCEPT !.envs[a[1]].bindings[a[2]].val = value]

\* lisp_setvar.
lisp_setvar(s, name, value) ==
    IF IsConst(name) /\ ~s.ndebug
    THEN Abort(s, "lisp_setvar: assert(!name->obj.is_const)")
    ELSE LET a == EnvAssoc(s.envs, s.env, name.s)
         IN IF a[1] = 0
            THEN lisp_err(s, "Undefined variable")
            ELSE IF s.envs[a[1]].vm # s.envs[s.env].vm
                 THEN lisp_err(s, "Can not modify variable in foreign environment")
                 ELSE IF s.envs[a[1]].bindings[a[2]].is_const
                      THEN lisp_err(s, "Can not modify constant")
                      ELSE [s EXCEPT !.envs[a[1]].bindings[a[2]].val = value]

(***************************************************************************)
(* The evaluator                                                           *)
(*                                                                         *)
(* Every C function that can call lisp_eval_core (directly or not) is a    *)
(* frame on `frames'; pc is the point at which it resumes when its callee  *)
(* returns.  One step runs the function on top of the C stack up to its    *)
(* next call, its return or a longjmp.  Functions that never evaluate are  *)
(* operators on the state record.                                          *)
(***************************************************************************)
RECURSIVE Elems(_)
Elems(l) == IF l.t = "pair" THEN <<l.car>> \o Elems(l.cdr) ELSE <<>>

RECURSIVE PushAll(_, _)
PushAll(s, xs) == IF xs = <<>> THEN s ELSE PushAll(Push(s, Head(xs)), Tail(xs))

VmRunFrame ==
    [fn |-> "lisp_vm_run", pc |-> "start", jmp |-> 0, prev |-> 0,
     oldlevel |-> 0, oldcnt |-> 0]
LoadFrame == [fn |-> "load", pc |-> "start", n |-> 0]
EvalCoreFrame(at_tail) ==
    [fn |-> "lisp_eval_core", pc |-> "start", at_tail |-> at_tail, count |-> 0]
\* depth0 and env0 are history: the stack depth below the expression and the
\* environment when its evaluation began.
EvalExprFrame(p, at_tail, depth0, env0) ==
    [fn |-> "eval_expr", pc |-> "start", p |-> p, at_tail |-> at_tail,
     op |-> LISP_UNDEF, depth0 |-> depth0, env0 |-> env0]
EvalArgsFrame(args) == [fn |-> "eval_args", pc |-> "start", args |-> args, n |-> 0]
EvalListFrame(l, at_tail) ==
    [fn |-> "eval_list", pc |-> "start", l |-> l, at_tail |-> at_tail]
ApplyFrame(proc, args) ==
    [fn |-> "lisp_apply", pc |-> "start", proc |-> proc, args |-> args]
ApplyProcedureFrame(c, args) ==
    [fn |-> "apply_procedure", pc |-> "start", c |-> c, args |-> args]
ProcedureBodyFrame(c, args) ==
    [fn |-> "eval_procedure_body", pc |-> "start", c |-> c, args |-> args]
OpFrame(fn, args) == [fn |-> fn, pc |-> "start", args |-> args]
\* io0 is no local of op_catch: it keeps vm->input and vm->output of the
\* call for the properties.
CatchFrame(args) ==
    [fn |-> "op_catch", pc |-> "start", args |-> args, jmp |-> 0, prev |-> 0,
     old_level |-> 0, cnt |-> 0, old_env |-> 0, io0 |-> StdPorts]
ApplyNativeFrame(c, args) ==
    [fn |-> "apply_native", pc |-> "start", c |-> c, args |-> args]
\* A native procedure of twk.c; ret is its local of that name.
NativeFrame(fn, args) == [fn |-> fn, pc |-> "start", args |-> args, ret |-> NULL]
\* lisp_try(vm, fn, data); env0 and level0 are no locals of lisp_try, they
\* keep vm->env and vm->eval_level of the call for the properties.
TryFrame(fn, data) ==
    [fn |-> "lisp_try", pc |-> "start", callee |-> fn, data |-> data,
     jmp |-> 0, prev |-> 0, oldcnt |-> 0, env0 |-> 0, level0 |-> 0]

\* Return from lisp_eval_core: the object at the stack top is its value.
ReturnValue(s) == Return([s EXCEPT !.hist.last_value = Top(s, 0)])

\* ---- lisp_vm_run ----
VmRunExit(s, ok) ==
    IF ~s.ndebug /\ (Count(s) # Frame(s).oldcnt \/ Top(s, 2) # EnvObj(s.env))
    THEN Abort(s, "lisp_vm_run: assert")
    ELSE [Pop(s, 3) EXCEPT !.catch = Frame(s).prev, !.frames = <<>>,
                           !.status = IF ok THEN "done" ELSE "failed"]

\* vm->input->isatty: the programs typed at a terminal.  (vm->output is not
\* a terminal: load prints no prompt and no echo.)
InputIsATty == prog.kind = "top" /\ prog.tty

\* lisp_port_drain(vm->input, -1): what is left in the buffer is dropped.
RECURSIVE lisp_port_drain(_)
lisp_port_drain(in) ==
    IF in = <<>> THEN <<>>
    ELSE IF Head(in) = NEWLINE THEN Tail(in) ELSE lisp_port_drain(Tail(in))

\* A variant of VmRunRestore that leaves vm->eval_level as the escape found it.
VmRunRestoreKeepsLevel(s, f) ==
    LET s1 == [s EXCEPT !.stack = SubSeq(@, 1, f.oldcnt), !.catch = 0]
    IN [s1 EXCEPT !.env = Top(s1, 2).id]

\* What lisp_vm_run puts back when a longjmp comes back to its setjmp.
VmRunRestore(s, f) ==
    LET s1 == [s EXCEPT !.stack = SubSeq(@, 1, f.oldcnt),
                        !.eval_level = f.oldlevel,
                        !.catch = 0]
    IN [s1 EXCEPT !.env = Top(s1, 2).id]

lisp_vm_run(s) ==
    LET f == Frame(s)
    IN CASE f.pc = "start" ->
              LET s0 == [s EXCEPT !.hist.entry =
                            [count |-> Count(s), level |-> s.eval_level,
                             env |-> s.env, catch |-> s.catch]]
                  s1 == Push(Push(Push(s0, EnvObj(s.env)), s.io.input),
                             s.io.output)
                  s2 == [s1 EXCEPT !.frames[Depth(s)] =
                                      [f EXCEPT !.prev = s.catch,
                                                !.oldlevel = s.eval_level,
                                                !.oldcnt = Count(s1),
                                                !.pc = "loaded"],
                                   !.catch = Depth(s),
                                   !.last_eval = LISP_UNDEF]
              IN Call(s2, LoadFrame)
         [] f.pc = "loaded" ->
              VmRunExit([Pop(s, 1) EXCEPT !.last_eval = Top(s, 0)], TRUE)
         [] f.pc = "caught" ->
              LET s1 == VmRunRestore(
                           [s EXCEPT !.err = IF f.jmp = 2 THEN "Uncaught throw" ELSE @,
                                     !.jumped = FALSE], f)
                  s2 == [s1 EXCEPT !.hist.top =
                            [n |-> @.n + 1, count |-> Count(s1),
                             level |-> s1.eval_level, env |-> s1.env]]
              IN IF InputIsATty
                 \* goto Loop
                 THEN Call([s2 EXCEPT !.io = [input |-> Top(s2, 1),
                                              output |-> Top(s2, 0)],
                                      !.input = lisp_port_drain(@),
                                      !.catch = Depth(s),
                                      !.last_eval = LISP_UNDEF,
                                      !.frames[Depth(s)].pc = "loaded",
                                      !.frames[Depth(s)].jmp = 0],
                           LoadFrame)
                 ELSE VmRunExit(s2, FALSE)

\* ---- load ----
\* lisp_read skips the white space before a form.
RECURSIVE SkipSpace(_)
SkipSpace(in) ==
    IF in # <<>> /\ Head(in) = NEWLINE THEN SkipSpace(Tail(in)) ELSE in

LoadRead(s) ==
    LET f == Frame(s)
        in == SkipSpace(s.input)
    IN IF in = <<>>
       THEN Return(IF f.n = 0 THEN Push([s EXCEPT !.input = in], LISP_UNDEF)
                   ELSE [s EXCEPT !.input = in])
       ELSE LET s1 == [Push(s, Head(in)) EXCEPT !.input = Tail(in)]
                s2 == IF f.n > 0 THEN Push(Pop(s1, 2), Top(s1, 0)) ELSE s1
            IN Call(Goto(s2, "evald"), EvalCoreFrame(FALSE))

load(s) ==
    IF Frame(s).pc = "start"
    THEN LoadRead(s)
    ELSE LoadRead([s EXCEPT !.frames[Depth(s)].n = @ + 1])

\* ---- lisp_eval_core ----
\* hist.macro counts the tail-call objects lisp_eval_core is given to
\* evaluate (evald) and the ones lisp_eval returns as a value (yielded).
lisp_eval_core(s0) ==
    LET f == Frame(s0)
        obj == Top(s0, 0)
        s == CASE f.pc = "start" /\ HasFlag(obj, "tail_call") ->
                    [s0 EXCEPT !.hist.macro.evald = @ + 1]
               [] f.pc # "start" /\ ~f.at_tail /\ HasFlag(obj, "tail_call") ->
                    [s0 EXCEPT !.hist.macro.yielded = @ + 1]
               [] OTHER -> s0
    IN IF f.pc = "start"
       THEN IF IsConst(obj) THEN ReturnValue(s)
            ELSE CASE obj.t = "sym" ->
                        IF GetVarFound(s, obj)
                        THEN ReturnValue(Push(Pop(s, 1), GetVarValue(s, obj)))
                        ELSE lisp_err(s, "Undefined variable")
                   [] obj.t = "pair" ->
                        Call([s EXCEPT !.frames[Depth(s)] =
                                [f EXCEPT !.pc = "ret", !.count = Count(s)]],
                             EvalExprFrame(obj, f.at_tail, Count(s) - 1, s.env))
                   [] OTHER -> lisp_err(s, "Can not eval type")
       ELSE IF Count(s) # f.count /\ ~s.ndebug
            THEN Abort(s, "lisp_eval_core: assert(count == vm->stack->count)")
            ELSE ReturnValue(s)

\* ---- eval_expr ----
EvalExprFinish(s) ==
    LET f == Frame(s)
        s1 == [Push(Pop(s, 5), Top(s, 0)) EXCEPT !.eval_level = @ - 1]
        s2 == IF CAR(f.p) = Sym("catch")
              THEN [s1 EXCEPT !.hist.form =
                      [n |-> @.n + 1, d0 |-> f.depth0, d1 |-> Count(s1),
                       e0 |-> f.env0, e1 |-> s1.env]]
              ELSE s1
    IN Return(s2)

\* A variant of IsTailCall that never defers an application.
NeverTailCall(at_tail, op) == FALSE

\* The application of op is deferred: eval_expr returns a tail-call object.
IsTailCall(at_tail, op) == at_tail /\ op.t = "proc"

EvalExprApply(s) ==
    LET f == Frame(s)
    IN IF IsTailCall(f.at_tail, f.op)
       THEN LET args == Top(s, 0)
                s1 == LispCons(LispCons(Push(Push(Push(s, f.p), f.op), args)))
            IN EvalExprFinish(FlagTop(s1, "tail_call"))
       ELSE Call(Goto(s, "applied"), ApplyFrame(f.op, Top(s, 0)))

eval_expr(s) ==
    LET f == Frame(s)
        n == Count(s)
    IN CASE f.pc = "start" ->
              LET s1 == [s EXCEPT !.eval_level = @ + 1]
              IN IF s1.eval_level > MAX_DEPTH
                 THEN lisp_err(s1, "exceeding max depth")
                 ELSE Call(Goto(Push(Push(s1, LISP_EXPR_MARK), CAR(f.p)), "op"),
                           EvalCoreFrame(FALSE))
         [] f.pc = "op" ->
              LET op == Top(s, 0)
                  s1 == [s EXCEPT !.frames[Depth(s)].op = op]
              IN IF ~is_list(f.p) THEN lisp_err(s, "bad sexp: not a list")
                 ELSE IF IsSpecial(op)
                      THEN EvalExprApply(Push(s1, CDR(f.p)))
                      ELSE Call(Goto(s1, "args"), EvalArgsFrame(CDR(f.p)))
         [] f.pc = "args" -> EvalExprApply(s)
         [] f.pc = "applied" ->
              IF f.at_tail \/ ~HasFlag(Top(s, 0), "tail_call")
              THEN EvalExprFinish(s)
              ELSE LET t2 == Top(s, 0)
                       op == CADR(t2)
                       s1 == [s EXCEPT !.stack =
                                 [i \in 1 .. n - 1 |->
                                    CASE i = n - 4 -> CAR(t2)
                                      [] i = n - 2 -> op
                                      [] i = n - 1 -> CDDR(t2)
                                      [] OTHER -> s.stack[i]],
                               !.frames[Depth(s)].op = op]
                   IN IF s.stack[n - 3] # LISP_EXPR_MARK /\ ~s.ndebug
                      THEN Abort(s, "eval_expr: assert(t[-1] == LISP_EXPR_MARK)")
                      ELSE Call(s1, ApplyFrame(op, CDDR(t2)))

\* ---- eval_args ----
RECURSIVE ArgsLoop(_)
ArgsLoop(s) ==
    IF Frame(s).n = 0 THEN Return(s)
    ELSE LET t == Top(s, 0)
             p == Top(s, 1)
         IN IF p.cdr = t /\ IsConst(p.car)
            THEN ArgsLoop([Pop(s, 1) EXCEPT !.frames[Depth(s)].n = @ - 1])
            ELSE Call(Goto(Push(s, p.car), "evald"), EvalCoreFrame(FALSE))

\* A variant of ArgPairs that pushes the last pair first.
ArgPairsReversed(args) ==
    [i \in 1 .. ListLen(args) |-> Tails(args)[ListLen(args) + 1 - i]]

\* The pairs of the argument list in the order eval_args pushes them.
ArgPairs(args) == Tails(args)

eval_args(s) ==
    LET f == Frame(s)
    IN IF f.pc = "start"
       THEN ArgsLoop([Push(PushAll(s, ArgPairs(f.args)), NIL)
                        EXCEPT !.frames[Depth(s)].n = ListLen(f.args)])
       ELSE LET p == Cons(Top(s, 0), Top(s, 1))
            IN ArgsLoop([Push(Pop(s, 3), p)
                           EXCEPT !.frames[Depth(s)].n = @ - 1])

\* ---- eval_list ----
\* The expression eval_list takes next from the list l.
ListNext(l) == CAR(l)

EvalListLoop(s) ==
    LET f == Frame(s)
    IN IF CDR(f.l) # NIL
       THEN Call(Goto(Push(s, ListNext(f.l)), "evald"), EvalCoreFrame(FALSE))
       ELSE Call(Goto(Push(s, ListNext(f.l)), "last"), EvalCoreFrame(f.at_tail))

eval_list(s) ==
    LET f == Frame(s)
    IN CASE f.pc = "start" -> EvalListLoop(s)
         [] f.pc = "evald" ->
              IF HasFlag(Top(s, 0), "is_return") THEN Return(s)
              ELSE EvalListLoop([Pop(s, 1) EXCEPT !.frames[Depth(s)].l = CDR(@)])
         [] f.pc = "last" -> Return(s)

\* ---- primitives that evaluate nothing ----
RECURSIVE SumSeq(_)
SumSeq(xs) == IF xs = <<>> THEN 0 ELSE Head(xs).n + SumSeq(Tail(xs))

AllNumbers(args) == \A i \in 1 .. Len(Elems(args)) : Elems(args)[i].t = "num"

op_add(s, args) ==
    IF AllNumbers(args) THEN Push(s, Num(SumSeq(Elems(args))))
    ELSE lisp_err(s, "expect number")

op_sub(s, args) ==
    IF ~AllNumbers(args) THEN lisp_err(s, "expect number")
    ELSE IF CDR(args) # NIL
         THEN Push(s, Num(CAR(args).n - SumSeq(Elems(CDR(args)))))
         ELSE Push(s, Num(0 - SumSeq(Elems(args))))

\* op_numeric_test with numeric_eq: stops at the first operand that is not a
\* number or the first pair of neighbours that differ.
RECURSIVE NumericEq(_, _)
NumericEq(s, args) ==
    IF args = NIL \/ CDR(args) = NIL THEN Push(s, LISP_TRUE)
    ELSE IF CAR(args).t # "num" \/ CADR(args).t # "num"
         THEN lisp_err(s, "expect number")
         ELSE IF CAR(args).n # CADR(args).n THEN Push(s, LISP_FALSE)
              ELSE NumericEq(s, CDR(args))

\* op_print: every argument goes to vm->output, first to last.
op_print(s, args) == Push([s EXCEPT !.out = @ \o Elems(args)], LISP_UNDEF)

op_throw(s, args) ==
    IF CDR(args) # NIL THEN lisp_err(s, "throw: too many arguments")
    ELSE LongJmp(Push([s EXCEPT !.hist.raised = [code |-> 2, obj |-> CAR(args)]],
                      CAR(args)), 2)

op_error(s, args) == throw_error([s EXCEPT !.err = "ERROR:"], args)

\* name->buf[0] == '&' for the symbols of the programs below.
StartsWithAmp(name) == name \in AmpSymbols

BadFormal(x) == x.t # "sym" \/ (IsConst(x) /\ ~StartsWithAmp(x.s))

op_lambda(s, e, args) ==
    IF ~is_list(CAR(args)) THEN lisp_err(s, "Bad arguments: not a list")
    ELSE IF \E i \in 1 .. ListLen(CAR(args)) : BadFormal(Elems(CAR(args))[i])
         THEN lisp_err(s, "Bad argument")
         ELSE Push([s EXCEPT !.nprocs = @ + 1], MakeProc(s.nprocs + 1, e, args))

defproc(s, args, body) ==
    IF CAR(args).t # "sym" THEN lisp_err(s, "procedure name must be a symbol")
    ELSE LET s1 == LispCons(Push(LispCons(Push(Push(s, Sym("&label")), args)), body))
             s2 == op_lambda(s1, s1.env, Top(s1, 0))
         IN IF s2.jumped THEN s2
            ELSE LET s3 == lisp_defvar(s2, CAR(args), Top(s2, 0))
                 IN IF s3.jumped THEN s3 ELSE Push(Pop(s3, 2), CAR(args))

\* op_defmacro: the procedure defproc has bound becomes an O_MACRO object
\* with is_special set.
op_defmacro(s, args) ==
    IF s.envs[s.env].no_def THEN lisp_err(s, "defmacro: prohibited")
    ELSE IF CAR(args).t # "pair" THEN lisp_err(s, "defmacro: bad arguments")
    ELSE LET s1 == defproc(s, CAR(args), CDR(args))
             i == DictAssoc(s1.envs[s1.env].bindings, CAR(CAR(args)).s)
         IN IF s1.jumped THEN s1
            ELSE [s1 EXCEPT !.envs[s1.env].bindings[i].val.t = "macro"]

\* lisp_assoc
RECURSIVE lisp_assoc(_, _)
lisp_assoc(l, k) ==
    IF l.t # "pair" THEN NIL
    ELSE IF CAR(l).t = "pair" /\ CAR(CAR(l)) = k THEN CAR(l)
         ELSE lisp_assoc(CDR(l), k)

\* ---- bind_args ----
\* The loop of bind_args over the formals; modifier is "" for NULL, and
\* procedure_name is what the error messages are tagged with.
RECURSIVE BindLoop(_, _, _, _, _, _)
BindLoop(s, c, formals, values, modifier, procedure_name) ==
    IF formals.t # "pair"
    THEN IF values # NIL /\ modifier = ""
         THEN lisp_err(s, procedure_name \o ": too many arguments")
         ELSE s
    ELSE LET name == CAR(formals).s
             rest == CDR(formals)
         IN CASE StartsWithAmp(name) ->
                   BindLoop(s, c, rest, values, name, procedure_name)
              [] ~StartsWithAmp(name) /\ modifier = "" ->
                   IF values = NIL
                   THEN lisp_err(s, procedure_name \o ": missing arguments")
                   ELSE BindLoop(AddBinding(s, name, CAR(values)), c, rest,
                                 CDR(values), modifier, procedure_name)
              [] ~StartsWithAmp(name) /\ modifier = "&label" ->
                   BindLoop(AddBinding(s, name, c), c, rest, values, "", name)
              [] ~StartsWithAmp(name) /\ modifier = "&optional" ->
                   BindLoop(AddBinding(s, name,
                               IF values = NIL THEN LISP_FALSE ELSE CAR(values)),
                            c, rest, CDR(values), modifier, procedure_name)
              [] ~StartsWithAmp(name) /\ modifier = "&rest" ->
                   BindLoop(AddBinding(s, name, values), c, rest, values,
                            modifier, procedure_name)
              [] ~StartsWithAmp(name) /\ modifier = "&key" ->
                   BindLoop(AddBinding(s, name,
                               IF lisp_assoc(values, Sym(name)) = NIL
                               THEN LISP_FALSE
                               ELSE CDR(lisp_assoc(values, Sym(name)))),
                            c, rest, values, modifier, procedure_name)

\* clear_env, then bind every formal of the procedure c.
bind_args(s, c, values) ==
    BindLoop([s EXCEPT !.envs[s.env].bindings = <<>>], c, CAR(c.lambda), values,
             "", "<unknown-procedure>")

\* ---- the port primitives of apply_primitive ----
lisp_input_port_p(o) == o.t = "port" /\ ~o.out
lisp_output_port_p(o) == o.t = "port" /\ o.out

\* The text of the ports a program reads: the port pin holds the datum 7,
\* the port pbad a closing parenthesis, which lisp_read rejects.  No
\* program reads a port twice.
lisp_read_from(s) ==
    IF s.io.input.name = "pbad" THEN lisp_err(s, "unexpected ')'")
    ELSE Push(s, Num(7))

\* case S_READ (vm->input is set in every program: old is not NULL).
s_read(s, args) ==
    LET old == s.io.input
        o == CAR(args)
        s1 == Push(s, old)
        s2 == IF o.t = "port"
              THEN IF o.out THEN lisp_err(s1, "not input port")
                   ELSE [s1 EXCEPT !.io.input = o]
              ELSE IF o # LISP_UNDEF THEN lisp_err(s1, "not port") ELSE s1
        s3 == IF s2.jumped THEN s2 ELSE lisp_read_from(s2)
    IN IF s3.jumped THEN s3
       ELSE [Push(Pop(s3, 2), Top(s3, 0)) EXCEPT !.io.input = Top(s3, 1)]

\* lisp_shift(vm, 2): the object below the top is taken out and returned.
lisp_shift2(s) == Push(Pop(s, 2), Top(s, 0))

\* case S_WITH_INPUT
s_with_input(s) ==
    LET f == Frame(s)
    IN CASE f.pc = "start" ->
              Call(Goto(Push(Push(s, s.io.input), CAR(f.args)), "port"),
                   EvalCoreFrame(FALSE))
         [] f.pc = "port" ->
              IF ~lisp_input_port_p(Top(s, 0))
              THEN lisp_err(s, "with-input: not input port")
              ELSE Call(Goto([Pop(s, 1) EXCEPT !.io.input = Top(s, 0)], "body"),
                        EvalListFrame(CDR(f.args), FALSE))
         [] f.pc = "body" ->
              Return([lisp_shift2(s) EXCEPT !.io.input = Top(s, 1)])

\* case S_WITH_OUTPUT
s_with_output(s) ==
    LET f == Frame(s)
    IN CASE f.pc = "start" ->
              Call(Goto(Push(Push(s, s.io.output), CAR(f.args)), "port"),
                   EvalCoreFrame(FALSE))
         [] f.pc = "port" ->
              IF ~lisp_output_port_p(Top(s, 0))
              THEN lisp_err(s, "with-input: not input port")
              ELSE Call(Goto([Pop(s, 1) EXCEPT !.io.output = Top(s, 0)], "body"),
                        EvalListFrame(CDR(f.args), FALSE))
         [] f.pc = "body" ->
              Return([lisp_shift2(s) EXCEPT !.io.output = Top(s, 1)])

\* ---- apply_primitive ----
apply_primitive(s, sid, args) ==
    CASE sid = "+" -> op_add(s, args)
      [] sid = "-" -> op_sub(s, args)
      [] sid = "=" -> NumericEq(s, args)
      [] sid = "quote" -> Push(s, CAR(args))
      [] sid = "list" -> Push(s, args)
      [] sid = "print" -> op_print(s, args)
      [] sid = "throw" -> op_throw(s, args)
      [] sid = "error" -> op_error(s, args)
      [] sid = "lambda" -> op_lambda(s, s.env, args)
      [] sid = "defmacro" -> op_defmacro(s, args)
      [] sid = "read" -> s_read(s, args)
      [] sid = "with-input" -> Call(s, OpFrame("S_WITH_INPUT", args))
      [] sid = "with-output" -> Call(s, OpFrame("S_WITH_OUTPUT", args))
      [] sid = "begin" -> Call(s, EvalListFrame(args, TRUE))
      [] sid = "if" -> Call(s, OpFrame("op_if", args))
      [] sid = "define" -> Call(s, OpFrame("op_define", args))
      [] sid = "set!" -> Call(s, OpFrame("op_set", args))
      [] sid = "return" -> Call(s, OpFrame("S_RETURN", args))
      [] sid = "catch" -> Call(s, CatchFrame(args))
      [] OTHER -> lisp_err(s, "Not a primitive")

\* ---- lisp_apply ----
\* case O_MACRO: apply_procedure leaves the expansion on the stack and
\* lisp_eval evaluates it; hist.macro keeps vm->env of the call (env0), and
\* the object handed to lisp_eval with vm->env at that point (form, env1).
lisp_apply(s) ==
    LET f == Frame(s)
    IN IF f.pc = "done" THEN Return(s)
       ELSE IF f.pc = "expanded"
       THEN Call(Goto([s EXCEPT !.hist.macro.n = @ + 1,
                                !.hist.macro.form = Top(s, 0),
                                !.hist.macro.env1 = s.env], "done"),
                 EvalCoreFrame(FALSE))
       ELSE CASE f.proc.t = "sym" ->
                   IF IsPrimitive(f.proc)
                   THEN apply_primitive(Goto(s, "done"), f.proc.s, f.args)
                   ELSE lisp_err(s, "apply: Not a primitive")
              [] f.proc.t = "proc" ->
                   Call(Goto(s, "done"), ApplyProcedureFrame(f.proc, f.args))
              [] f.proc.t = "macro" ->
                   Call(Goto([s EXCEPT !.hist.macro.env0 = s.env], "expanded"),
                        ApplyProcedureFrame(f.proc, f.args))
              [] f.proc.t = "native" ->
                   Call(Goto(s, "done"), ApplyNativeFrame(f.proc, f.args))
              [] OTHER -> lisp_err(s, "Invalid type for apply")

\* ---- apply_procedure, with lisp_begin_env and lisp_end_env ----
lisp_begin_env(s, parent) ==
    lisp_env_new(Push(Push(s, LISP_FRAME_MARK), EnvObj(s.env)), parent)

lisp_end_env(s) ==
    IF ~s.ndebug /\ (Count(s) < 3 \/ Top(s, 2) # LISP_FRAME_MARK
                       \/ Top(s, 1).t # "env")
    THEN Abort(s, "lisp_end_env: assert")
    ELSE [Push(Pop(s, 3), Top(s, 0)) EXCEPT !.env = Top(s, 1).id]

apply_procedure(s) ==
    LET f == Frame(s)
    IN IF f.pc = "start"
       THEN Call(Goto(lisp_begin_env(s, f.c.env), "end"),
                 ProcedureBodyFrame(f.c, f.args))
       ELSE LET s1 == lisp_end_env(s)
            IN IF s1.jumped THEN s1 ELSE Return(s1)

\* ---- eval_procedure_body ----
\* A variant of TailCallEnv that binds the arguments of the next iteration
\* in the environment of the last one.
TailCallEnvReused(s, c) == s

\* The environment of the next iteration of a tail call of c to itself:
\* vm->env = lisp_env_new(vm, c->env).
TailCallEnv(s, c) == lisp_env_new(s, c.env)

eval_procedure_body(s) ==
    LET f == Frame(s)
        lbody == CDR(f.c.lambda)
    IN IF f.pc = "start"
       THEN LET s1 == bind_args(s, f.c, f.args)
            IN IF s1.jumped THEN s1
               ELSE Call(Goto(s1, "body"), EvalListFrame(lbody, TRUE))
       ELSE LET t0 == Top(s, 0)
                s1 == IF HasFlag(t0, "is_return")
                      THEN Push(Pop(s, 1), CAR(t0)) ELSE s
                t == Top(s1, 0)
            IN IF HasFlag(t, "tail_call") /\ CADR(t) = f.c
               THEN LET s2 == bind_args(TailCallEnv(s1, f.c), f.c, CDDR(t))
                    IN IF s2.jumped THEN s2
                       ELSE Call(Pop(s2, 1), EvalListFrame(lbody, TRUE))
               ELSE Return(s1)

\* ---- op_if ----
op_if(s) ==
    LET f == Frame(s)
    IN CASE f.pc = "start" ->
              Call(Goto(Push(s, CAR(f.args)), "test"), EvalCoreFrame(FALSE))
         [] f.pc = "test" ->
              LET s1 == Pop(s, 1)
                  e == IF Top(s, 0) = LISP_FALSE
                       THEN CAR(CDDR(f.args)) ELSE CADR(f.args)
              IN Call(Goto(Push(s1, e), "done"), EvalCoreFrame(TRUE))
         [] f.pc = "done" -> Return(s)

\* ---- op_set ----
op_set(s) ==
    LET f == Frame(s)
        name == CAR(f.args)
    IN IF f.pc = "start"
       THEN IF name.t # "sym" THEN lisp_err(s, "set!: bad variable name")
            ELSE IF IsConst(name) THEN lisp_err(s, "set!: constant symbol")
                 ELSE Call(Goto(Push(s, CADR(f.args)), "val"), EvalCoreFrame(FALSE))
       ELSE LET s1 == lisp_setvar(s, name, Top(s, 0))
            IN IF s1.jumped THEN s1 ELSE Return(Push(Pop(s1, 1), LISP_UNDEF))

\* ---- op_define ----
op_define(s) ==
    LET f == Frame(s)
        name == CAR(f.args)
    IN IF f.pc = "start"
       THEN IF f.args = NIL THEN lisp_err(s, "define: missing arguments")
            ELSE IF s.envs[s.env].no_def THEN lisp_err(s, "define: prohibited")
            ELSE CASE name.t = "sym" ->
                        IF IsConst(name) THEN lisp_err(s, "define: const")
                        ELSE Call(Goto([Push(Push(s, name), CADR(f.args))
                                          EXCEPT !.envs[s.env].no_def = TRUE],
                                       "val"),
                                  EvalCoreFrame(FALSE))
                   [] name.t = "pair" ->
                        LET s1 == defproc(s, name, CDR(f.args))
                        IN IF s1.jumped THEN s1 ELSE Return(s1)
                   [] OTHER -> lisp_err(s, "define: bad arguments")
       ELSE LET s1 == lisp_defvar([s EXCEPT !.envs[s.env].no_def = FALSE],
                                  name, Top(s, 0))
            IN IF s1.jumped THEN s1 ELSE Return(Pop(s1, 1))

\* ---- case S_RETURN of apply_primitive ----
s_return(s) ==
    LET f == Frame(s)
    IN IF f.pc = "start"
       THEN Call(Goto(Push(s, CAR(f.args)), "val"), EvalCoreFrame(TRUE))
       ELSE Return(FlagTop(LispCons(Push(s, NIL)), "is_return"))

\* ---- op_catch ----
\* A variant of CatchRestore that leaves vm->env as the body left it.
CatchRestoreKeepsEnv(s, f) ==
    [s EXCEPT !.eval_level = f.old_level,
              !.catch = f.prev,
              !.stack = Append(SubSeq(s.stack, 1, f.cnt), Top(s, 0))]

\* A variant of CatchRestore that leaves vm->catch on the jmp_buf of op_catch.
CatchRestoreKeepsCatch(s, f) ==
    [s EXCEPT !.eval_level = f.old_level,
              !.env = f.old_env,
              !.stack = Append(SubSeq(s.stack, 1, f.cnt), Top(s, 0))]

\* A variant of CatchRestore that leaves vm->eval_level as the body left it.
CatchRestoreKeepsLevel(s, f) ==
    [s EXCEPT !.catch = f.prev,
              !.env = f.old_env,
              !.stack = Append(SubSeq(s.stack, 1, f.cnt), Top(s, 0))]

\* What op_catch puts back once the body is over, by return or by longjmp.
CatchRestore(s, f) ==
    [s EXCEPT !.eval_level = f.old_level,
              !.catch = f.prev,
              !.env = f.old_env,
              !.stack = Append(SubSeq(s.stack, 1, f.cnt), Top(s, 0))]

op_catch(s) ==
    LET f == Frame(s)
    IN IF f.pc = "start"
       THEN Call([s EXCEPT !.frames[Depth(s)] =
                     [f EXCEPT !.pc = "after", !.prev = s.catch,
                               !.old_level = s.eval_level, !.cnt = Count(s),
                               !.old_env = s.env, !.io0 = s.io],
                           !.catch = Depth(s)],
                 EvalListFrame(f.args, FALSE))
       ELSE IF ~s.ndebug /\ ~(Count(s) > f.cnt)
            THEN Abort(s, "op_catch: assert(vm->stack->count > cnt)")
            ELSE LET s1 == CatchRestore([s EXCEPT !.jumped = FALSE], f)
                 IN Return([s1 EXCEPT !.hist.catch =
                              [n |-> @.n + 1, how |-> f.jmp, value |-> Top(s1, 0),
                               body |-> s.hist.last_value,
                               raised |-> s.hist.raised],
                                      !.hist.ports =
                              [n |-> @.n + 1, jmp |-> f.jmp, io0 |-> f.io0,
                               io1 |-> s1.io]])

\* ---- apply_native ----
apply_native(s) ==
    LET f == Frame(s)
    IN IF f.pc = "start"
       THEN Call(Goto([Push(s, EnvObj(s.env)) EXCEPT !.env = f.c.env], "ret"),
                 NativeFrame(f.c.fn, f.args))
       ELSE IF Top(s, 1).t # "env"
            THEN Abort(s, "apply_native: assert(vm->env->obj.type == O_ENV)")
            ELSE Return([Push(Pop(s, 2), Top(s, 0)) EXCEPT !.env = Top(s, 1).id])

\* ---- lisp_try ----
\* lisp_make_list(vm, n): the top n objects become one list.
lisp_make_list(s, n) ==
    Push(Pop(s, n), L(SubSeq(s.stack, Count(s) - n + 1, Count(s))))

\* list_children (twk.c), from child i on: (pid name state) for every child,
\* then the list of these.  The allocation of the name of child data.fail
\* fails: lisp_alloc calls lisp_err.
RECURSIVE ListChildrenFrom(_, _, _)
ListChildrenFrom(s, data, i) ==
    IF i > Len(data.children) THEN lisp_make_list(s, Len(data.children))
    ELSE LET c == data.children[i]
             s1 == Push(s, Num(c.pid))
         IN IF data.fail = i THEN lisp_err(s1, "memory allocation failure")
            ELSE ListChildrenFrom(
                    lisp_make_list(Push(Push(s1, Sym(c.name)), Sym(c.state)), 3),
                    data, i + 1)

list_children(s, data) == ListChildrenFrom(s, data, 1)

\* A variant of TryRestore that leaves vm->catch on the jmp_buf of lisp_try.
TryRestoreKeepsCatch(s, f) == [s EXCEPT !.stack = SubSeq(@, 1, f.oldcnt)]

\* The last two statements of lisp_try.
TryRestore(s, f) ==
    [s EXCEPT !.catch = f.prev, !.stack = SubSeq(@, 1, f.oldcnt)]

\* return ret: to the C caller, or to the host when lisp_try is the outermost
\* call (thread_main logs "finished due to run time error" for NULL).
TryReturn(s, ret) ==
    LET f == Frame(s)
        s1 == TryRestore(s, f)
        s2 == [s1 EXCEPT !.hist.try =
                  [n |-> @.n + 1, jmp |-> f.jmp, ret |-> ret,
                   left |-> IF f.jmp = 0 THEN Top(s, 0) ELSE NULL,
                   d0 |-> f.oldcnt, d1 |-> Count(s1),
                   c0 |-> f.prev, c1 |-> s1.catch,
                   e0 |-> f.env0, e1 |-> s1.env,
                   l0 |-> f.level0, l1 |-> s1.eval_level]]
    IN IF Depth(s) = 1
       THEN [s2 EXCEPT !.frames = <<>>,
                       !.status = IF ret = NULL THEN "failed" ELSE "done"]
       ELSE [Return(s2) EXCEPT !.frames[Depth(s) - 1].ret = ret]

lisp_try(s) ==
    LET f == Frame(s)
    IN CASE f.pc = "start" ->
              LET s1 == [s EXCEPT !.frames[Depth(s)] =
                                     [f EXCEPT !.prev = s.catch,
                                               !.oldcnt = Count(s),
                                               !.env0 = s.env,
                                               !.level0 = s.eval_level,
                                               !.pc = "ret"],
                                  !.catch = Depth(s)]
              IN IF f.callee = "run_vm"
                 \* run_vm, process_run: lisp_eval_object(vm, lisp_top(vm, 0))
                 THEN Call(Push(s1, Top(s1, 0)), EvalCoreFrame(FALSE))
                 ELSE list_children(s1, f.data)
         [] f.pc = "ret" ->
              IF ~s.ndebug /\ Count(s) # f.oldcnt + 1
              THEN Abort(s, "lisp_try: assert(vm->stack->count == oldcnt+1)")
              ELSE TryReturn(s, Top(s, 0))
         [] f.pc = "caught" -> TryReturn([s EXCEPT !.jumped = FALSE], NULL)

\* ---- op_list_processes (twk.c) ----
\* proc->children of the process of this VM, and the allocation that fails.
Children ==
    << [pid |-> 3, name |-> "*noname*", state |-> "RUNNABLE"],
       [pid |-> 2, name |-> "worker", state |-> "WAITING"] >>
Process == [children |-> Children,
            fail |-> IF prog.kind = "try" /\ prog.inner = "native"
                        /\ prog.h1 # "normal"
                     THEN Len(Children) ELSE 0]

op_list_processes(s) ==
    LET f == Frame(s)
    IN IF f.pc = "start"
       THEN Call(Goto(s, "tried"), TryFrame("list_children", Process))
       ELSE IF f.ret = NULL THEN lisp_err(s, "list-processes: fatal")
            ELSE Return(Push(s, f.ret))

(***************************************************************************)
(* Programs                                                                *)
(*                                                                         *)
(* The VM runs one program, a sequence of forms on its input port.  The    *)
(* programs are small families indexed by the bounds below.                *)
(***************************************************************************)
MaxNest == 2     \* procedure calls between a catch and the throw: 0 .. MaxNest
MaxVal == 2      \* values thrown or returned: 1 .. MaxVal
MaxIter == 3     \* iterations of the tail-recursive loop: 0 .. MaxIter
MaxArgs == 3     \* arguments of an application, expressions of a body

App(f, xs) == L(<<Sym(f)>> \o xs)

CatchHows == {"normal", "throw", "error", "internal"}

\* The expression that ends the body of the catch.
RaiseExpr(how, v) ==
    CASE how = "normal" -> Num(v)
      [] how = "throw" -> App("throw", <<Num(v)>>)
      [] how = "error" -> App("error", <<Str("e"), Num(v)>>)
      [] how = "internal" -> App("nosuch", <<>>)

\* (define (nest n) (if (= n 0) RAISE (+ 0 (nest (- n 1)))))
\* (define (g d) (list 5 (catch (print 1) (nest d))))
\* (print (g DEPTH))
CatchForms(how, depth, v) ==
    << App("define",
           << App("nest", <<Sym("n")>>),
              App("if", << App("=", <<Sym("n"), Num(0)>>),
                           RaiseExpr(how, v),
                           App("+", << Num(0),
                                       App("nest", <<App("-", <<Sym("n"), Num(1)>>)>>) >>) >>) >>),
       App("define",
           << App("g", <<Sym("d")>>),
              App("list", << Num(5),
                             App("catch", << App("print", <<Num(1)>>),
                                             App("nest", <<Sym("d")>>) >>) >>) >>),
       App("print", << App("g", <<Num(depth)>>) >>) >>

\* (define (loop n acc) (if (= n 0) ACC (loop (- n 1) (+ acc 1))))
\* (print (loop N 0))          ACC is acc or (return acc)
LoopForms(n, ret) ==
    << App("define",
           << App("loop", <<Sym("n"), Sym("acc")>>),
              App("if", << App("=", <<Sym("n"), Num(0)>>),
                           IF ret THEN App("return", <<Sym("acc")>>) ELSE Sym("acc"),
                           App("loop", << App("-", <<Sym("n"), Num(1)>>),
                                          App("+", <<Sym("acc"), Num(1)>>) >>) >>) >>),
       App("print", << App("loop", <<Num(n), Num(0)>>) >>) >>

\* A procedure that calls itself without end and not in tail position, so
\* that the evaluations nest until MAX_DEPTH; the catch around the first call
\* is itself D procedure calls down; a shallow evaluation follows.
\*   (define (f) (list (f)))
\*   (define (g d) (if (= d 0) (catch (f)) (list (g (- d 1)))))
\*   (print (g D))
\*   (print (+ 1 1))
DepthForms(d) ==
    << App("define", << L(<<Sym("f")>>), App("list", <<App("f", <<>>)>>) >>),
       App("define",
           << App("g", <<Sym("d")>>),
              App("if", << App("=", <<Sym("d"), Num(0)>>),
                           App("catch", <<App("f", <<>>)>>),
                           App("list",
                               <<App("g", <<App("-", <<Sym("d"), Num(1)>>)>>)>>) >>) >>),
       App("print", << App("g", <<Num(d)>>) >>),
       App("print", << App("+", <<Num(1), Num(1)>>) >>) >>

\* (define k 0)
\* (define (loop i)
\*   (if (= i 0) 0 (begin (if (= i J) (set! k (lambda () i)) 0) (loop (- i 1)))))
\* (loop N)
\* (print (k))
ClosureForms(n, j) ==
    << App("define", <<Sym("k"), Num(0)>>),
       App("define",
           << App("loop", <<Sym("i")>>),
              App("if",
                  << App("=", <<Sym("i"), Num(0)>>),
                     Num(0),
                     App("begin",
                         << App("if", << App("=", <<Sym("i"), Num(j)>>),
                                         App("set!", << Sym("k"),
                                                        App("lambda", <<NIL, Sym("i")>>) >>),
                                         Num(0) >>),
                            App("loop", <<App("-", <<Sym("i"), Num(1)>>)>>) >>) >>) >>),
       App("loop", <<Num(n)>>),
       App("print", <<App("k", <<>>)>>) >>

\* A define whose right-hand side is left by HOW, then a second define:
\*   top     (catch (define x RAISE))                        (define y 2) (print y)
\*   proc    (define (f) (define a RAISE) a) (catch (f))     (define y 2) (print y)
\*   during  (define x (begin (catch (define z 1)) RAISE))   (define y 2) (print y)
\*   callee  (define (g) (define a 1) a) (define x (g))      (define y 2) (print y)
\* (in the last two RAISE is the number V: the first define ends normally)
NoDefWheres == {"top", "proc", "during", "callee"}
NoDefForms(where, how) ==
    (CASE where = "top" ->
            << App("catch", << App("define", <<Sym("x"), RaiseExpr(how, 1)>>) >>) >>
       [] where = "proc" ->
            << App("define", << L(<<Sym("f")>>),
                                App("define", <<Sym("a"), RaiseExpr(how, 1)>>),
                                Sym("a") >>),
               App("catch", << App("f", <<>>) >>) >>
       [] where = "during" ->
            << App("define",
                   << Sym("x"),
                      App("begin",
                          << App("catch", << App("define", <<Sym("z"), Num(1)>>) >>),
                             Num(1) >>) >>) >>
       [] where = "callee" ->
            << App("define", << L(<<Sym("g")>>),
                                App("define", <<Sym("a"), Num(1)>>),
                                Sym("a") >>),
               App("define", << Sym("x"), App("g", <<>>) >>) >>)
    \o << App("define", <<Sym("y"), Num(2)>>), App("print", <<Sym("y")>>) >>

ConstOps == {"set!", "define", "defproc"}
ConstNames == {"true", "else", "&rest"}

\* (define x 1)
\* (catch (set! NAME 2))  or  (catch (define NAME 2))  or  (catch (define (NAME) 2))
\* (print x)
ConstForms(op, name) ==
    << App("define", <<Sym("x"), Num(1)>>),
       App("catch",
           << CASE op = "set!" -> App("set!", <<Sym(name), Num(2)>>)
                [] op = "define" -> App("define", <<Sym(name), Num(2)>>)
                [] op = "defproc" -> App("define", <<L(<<Sym(name)>>), Num(2)>>) >>),
       App("print", <<Sym("x")>>) >>

OrderShapes == {"args", "begin", "body"}
\* Expression i of the sequence: the call (print i) or the constant i.
OrderExprs(pat) ==
    [i \in 1 .. Len(pat) |->
        IF pat[i] = "call" THEN App("print", <<Num(i)>>) ELSE Num(i)]

\* (list E1 ... En)   or   (begin E1 ... En)   or   (define (h) E1 ... En) (h)
OrderForms(shape, pat) ==
    CASE shape = "args" -> << App("list", OrderExprs(pat)) >>
      [] shape = "begin" -> << App("begin", OrderExprs(pat)) >>
      [] shape = "body" ->
           << App("define", <<L(<<Sym("h")>>)>> \o OrderExprs(pat)),
              App("h", <<>>) >>

Patterns == UNION {[1 .. n -> {"call", "const"}] : n \in 1 .. MaxArgs}

\* Lines typed at a terminal, or read from a file, after the definition
\*   (define (nest n) (if (= n 0) (nosuch) (+ 0 (nest (- n 1)))))
\* Every line holds 1 .. MaxLineForms of the forms
\*   (print 1)    (throw 2)    (nest 1)
MaxLineForms == 2   \* forms on one line of the input
TopKinds == {"print", "throw", "nest"}
TopForm(k) ==
    CASE k = "print" -> App("print", <<Num(1)>>)
      [] k = "throw" -> App("throw", <<Num(2)>>)
      [] k = "nest" -> App("nest", <<Num(1)>>)
TopLines == UNION {[1 .. n -> TopKinds] : n \in 1 .. MaxLineForms}
\* One line or two.
TopTexts == {<<a>> : a \in TopLines} \cup {<<a, b>> : a, b \in TopLines}
TopLine(line) == [i \in 1 .. Len(line) |-> TopForm(line[i])] \o <<NEWLINE>>
TopForms(p) ==
    << Head(CatchForms("internal", 0, 1)), NEWLINE >>
    \o Concat([i \in 1 .. Len(p.lines) |-> TopLine(p.lines[i])])

\* The form a process evaluates under lisp_try (process_run):
\*   (OUTER INNER E2)    OUTER is begin or catch, E2 ends normally or raises V+1
\* INNER is E1, (catch (print 1) E1) or (list-processes); E1 ends normally
\* or raises V; list_children succeeds or an allocation in it fails.  A deep
\* E1 is evaluated inside a procedure: (begin (define (f) (list E1)) (f)).
\* A form that changes the current port, alone or under a catch, then a
\* print; pin and pbad are input ports, pout is an output port.
\*   (catch (with-output pout E))   (catch (with-input pin E))
\*   (catch (read pin))             (catch (read pbad))
\* E ends normally or raises; with an inner catch E is (catch E).
PortOps == {"with-output", "with-input", "read"}
PortBody(p) ==
    IF p.inner THEN App("catch", <<RaiseExpr(p.how, 1)>>) ELSE RaiseExpr(p.how, 1)
PortForm(p) ==
    CASE p.op = "with-output" -> App("with-output", <<Sym("pout"), PortBody(p)>>)
      [] p.op = "with-input" -> App("with-input", <<Sym("pin"), PortBody(p)>>)
      [] p.op = "read" ->
           App("read", <<Sym(IF p.how = "normal" THEN "pin" ELSE "pbad")>>)
PortForms(p) ==
    << IF p.caught THEN App("catch", <<PortForm(p)>>) ELSE PortForm(p),
       App("print", <<Num(3)>>) >>

MacroBodies == {"primitive", "procedure"}
MacroUses == {"top", "tail"}
TryOuters == {"begin", "catch"}
TryInners == {"none", "catch", "native"}
TryInner(p) ==
    CASE p.inner = "none" ->
           IF p.deep
           THEN App("begin",
                    << App("define", << L(<<Sym("f")>>),
                                        App("list", <<RaiseExpr(p.h1, p.v)>>) >>),
                       App("f", <<>>) >>)
           ELSE RaiseExpr(p.h1, p.v)
      [] p.inner = "catch" ->
           App("catch", << App("print", <<Num(1)>>), RaiseExpr(p.h1, p.v) >>)
      [] p.inner = "native" -> App("list-processes", <<>>)
TryForm(p) == App(p.outer, << TryInner(p), RaiseExpr(p.h2, p.v + 1) >>)

Programs ==
    {[kind |-> "catch", how |-> h, depth |-> d, v |-> v] :
        h \in CatchHows, d \in 0 .. MaxNest, v \in 1 .. MaxVal}
    \cup {[kind |-> "loop", n |-> n, ret |-> r] : n \in 0 .. MaxIter, r \in BOOLEAN}
    \cup {[kind |-> "const", op |-> o, name |-> nm] : o \in ConstOps, nm \in ConstNames}
    \cup {[kind |-> "order", shape |-> sh, pat |-> p] : sh \in OrderShapes, p \in Patterns}
    \cup UNION {{[kind |-> "closure", n |-> n, j |-> j] : j \in 1 .. n} : n \in 1 .. MaxIter}
    \cup {[kind |-> "nodef", where |-> w, how |-> h] :
            w \in NoDefWheres, h \in CatchHows}
    \cup {[kind |-> "top", tty |-> t, lines |-> ls] : t \in BOOLEAN, ls \in TopTexts}
    \cup {[kind |-> "try", outer |-> o, inner |-> i, h1 |-> h1, h2 |-> h2, v |-> v,
            deep |-> FALSE] :
            o \in TryOuters, i \in TryInners, h1 \in CatchHows, h2 \in CatchHows,
            v \in 1 .. MaxVal}
    \cup {[kind |-> "try", outer |-> o, inner |-> "none", h1 |-> h1, h2 |-> h2,
            v |-> v, deep |-> TRUE] :
            o \in TryOuters, h1 \in CatchHows, h2 \in CatchHows, v \in 1 .. MaxVal}
    \cup {[kind |-> "macro", body |-> b, nargs |-> n, use |-> u] :
            b \in MacroBodies, n \in 0 .. 1, u \in MacroUses}
    \cup {[kind |-> "port", op |-> o, how |-> h, inner |-> i, caught |-> c] :
            o \in PortOps \ {"read"}, h \in CatchHows,
            i \in BOOLEAN, c \in BOOLEAN}
    \cup {[kind |-> "port", op |-> "read", how |-> h, inner |-> FALSE,
            caught |-> c] : h \in {"normal", "internal"}, c \in BOOLEAN}

\* A procedure with np positional formals, no &optional formals and perhaps
\* a &rest formal, applied to na arguments; its body prints 0 and returns
\* the list of its positional and optional formals.
\*   (define (f a b &optional o p &rest r) (print 0) (list a b o p))
\*   (print (f 1 2 ... na))
MaxPositional == 2
MaxOptional == 2

PosNames == <<"a", "b", "c", "d">>
OptNames == <<"o", "p", "q", "s">>

Formals(np, no, rest) ==
    [i \in 1 .. np |-> Sym(PosNames[i])]
        \o (IF no > 0 THEN <<Sym("&optional")>> \o [j \in 1 .. no |-> Sym(OptNames[j])]
            ELSE <<>>)
        \o (IF rest THEN <<Sym("&rest"), Sym("r")>> ELSE <<>>)

BoundNames(np, no) ==
    [i \in 1 .. np |-> Sym(PosNames[i])] \o [j \in 1 .. no |-> Sym(OptNames[j])]

ArgForms(np, no, rest, na) ==
    << App("define", << App("f", Formals(np, no, rest)),
                        App("print", <<Num(0)>>),
                        App("list", BoundNames(np, no)) >>),
       App("print", << App("f", [i \in 1 .. na |-> Num(i)]) >>) >>

\* A macro m whose body's last expression builds the form (print 7) with
\* the primitive list or by calling the procedure g, used at the top level
\* or as the last expression of a procedure u; m takes the 7 as its
\* argument or takes none.
\*   (define (g x) (list 'print x))
\*   (defmacro (m a) (g a))          or   (defmacro (m a) (list 'print a))
\*   (m 7)                           or   (define (u) (m 7)) (u)
MacroForm(f, x) == App(f, <<App("quote", <<Sym("print")>>), x>>)
MacroForms(p) ==
    LET formals == IF p.nargs = 1 THEN <<Sym("a")>> ELSE <<>>
        actuals == IF p.nargs = 1 THEN <<Num(7)>> ELSE <<>>
        item == IF p.nargs = 1 THEN Sym("a") ELSE Num(7)
        gdef == IF p.nargs = 1
                THEN App("define", << App("g", <<Sym("x")>>),
                                      MacroForm("list", Sym("x")) >>)
                ELSE App("define", << App("g", <<>>),
                                      MacroForm("list", Num(7)) >>)
        body == IF p.body = "procedure"
                THEN App("g", IF p.nargs = 1 THEN <<Sym("a")>> ELSE <<>>)
                ELSE MacroForm("list", item)
        mdef == App("defmacro", << App("m", formals), body >>)
        use == IF p.use = "top" THEN << App("m", actuals) >>
               ELSE << App("define", << App("u", <<>>), App("m", actuals) >>),
                       App("u", <<>>) >>
    IN <<gdef, mdef>> \o use

Forms(p) ==
    CASE p.kind = "catch" -> CatchForms(p.how, p.depth, p.v)
      [] p.kind = "macro" -> MacroForms(p)
      [] p.kind = "port" -> PortForms(p)
      [] p.kind = "loop" -> LoopForms(p.n, p.ret)
      [] p.kind = "const" -> ConstForms(p.op, p.name)
      [] p.kind = "order" -> OrderForms(p.shape, p.pat)
      [] p.kind = "top" -> TopForms(p)
      [] p.kind = "nodef" -> NoDefForms(p.where, p.how)
      [] p.kind = "closure" -> ClosureForms(p.n, p.j)
      [] p.kind = "depth" -> DepthForms(p.d)
      [] p.kind = "args" -> ArgForms(p.np, p.no, p.rest, p.na)
      [] OTHER -> <<>>

(***************************************************************************)
(* The evaluator as a state machine                                        *)
(***************************************************************************)
HistInit ==
    [raised |-> [code |-> 0, obj |-> NIL],
     last_value |-> LISP_UNDEF,
     catch |-> [n |-> 0, how |-> 0, value |-> NIL, body |-> NIL,
                raised |-> [code |-> 0, obj |-> NIL]],
     form |-> [n |-> 0, d0 |-> 0, d1 |-> 0, e0 |-> 0, e1 |-> 0],
     entry |-> [count |-> 0, level |-> 0, env |-> 0, catch |-> 0],
     top |-> [n |-> 0, count |-> 0, level |-> 0, env |-> 0],
     try |-> [n |-> 0, jmp |-> 0, ret |-> NULL, left |-> NULL,
              d0 |-> 0, d1 |-> 0, c0 |-> 0, c1 |-> 0,
              e0 |-> 0, e1 |-> 0, l0 |-> 0, l1 |-> 0],
     macro |-> [n |-> 0, env0 |-> 0, env1 |-> 0, form |-> NIL,
                evald |-> 0, yielded |-> 0],
     ports |-> [n |-> 0, jmp |-> 0, io0 |-> StdPorts, io1 |-> StdPorts]]

\* The global environment: twk_init defines the native procedures (lisp_defn).
GlobalEnv(p) ==
    CASE p.kind = "try" ->
           [NewEnv(0, 1) EXCEPT !.bindings =
              << Binding("list-processes", Native("op_list_processes", 1)) >>]
      [] p.kind = "port" ->
           [NewEnv(0, 1) EXCEPT !.bindings =
              << Binding("pin", Port("pin")), Binding("pbad", Port("pbad")),
                 Binding("pout", Port("pout")) >>]
      [] OTHER -> NewEnv(0, 1)

\* lisp_vm_new, then the call of lisp_vm_run on the program; for a process of
\* twk.c the call lisp_try(proc->vm, run_vm, proc) of thread_main, with the
\* form process_init parsed on the stack.
VmNew(p) ==
    /\ prog = p
    /\ stack = IF p.kind = "try" THEN <<TryForm(p)>> ELSE <<>>
    /\ env = 1
    /\ eval_level = 0
    /\ catch = 0
    /\ envs = <<GlobalEnv(p)>>
    /\ frames = IF p.kind = "try" THEN <<TryFrame("run_vm", p)>> ELSE <<VmRunFrame>>
    /\ out = <<>>
    /\ err = ""
    /\ status = "running"
    /\ input = Forms(p)
    /\ last_eval = LISP_UNDEF
    /\ io = StdPorts
    /\ nprocs = 0
    /\ hist = HistInit

\* No VM: the state of the evaluator while another part is examined.
EvalIdle ==
    /\ prog = [kind |-> "none"]
    /\ stack = <<>>
    /\ env = 1
    /\ eval_level = 0
    /\ catch = 0
    /\ envs = <<NewEnv(0, 1)>>
    /\ frames = <<>>
    /\ out = <<>>
    /\ err = ""
    /\ status = "idle"
    /\ input = <<>>
    /\ last_eval = LISP_UNDEF
    /\ io = StdPorts
    /\ nprocs = 0
    /\ hist = HistInit
    /\ ndebug = FALSE

Running(fn) == status = "running" /\ frames # <<>> /\ Frame(S).fn = fn

LispVmRun == Running("lisp_vm_run") /\ Commit(lisp_vm_run(S)) /\ UNCHANGED notEval
Load == Running("load") /\ Commit(load(S)) /\ UNCHANGED notEval
LispEvalCore == Running("lisp_eval_core") /\ Commit(lisp_eval_core(S)) /\ UNCHANGED notEval
EvalExpr == Running("eval_expr") /\ Commit(eval_expr(S)) /\ UNCHANGED notEval
EvalArgs == Running("eval_args") /\ Commit(eval_args(S)) /\ UNCHANGED notEval
EvalList == Running("eval_list") /\ Commit(eval_list(S)) /\ UNCHANGED notEval
LispApply == Running("lisp_apply") /\ Commit(lisp_apply(S)) /\ UNCHANGED notEval
ApplyProcedure == Running("apply_procedure") /\ Commit(apply_procedure(S)) /\ UNCHANGED notEval
EvalProcedureBody == Running("eval_procedure_body") /\ Commit(eval_procedure_body(S)) /\ UNCHANGED notEval
OpIf == Running("op_if") /\ Commit(op_if(S)) /\ UNCHANGED notEval
OpSet == Running("op_set") /\ Commit(op_set(S)) /\ UNCHANGED notEval
OpDefine == Running("op_define") /\ Commit(op_define(S)) /\ UNCHANGED notEval
OpReturn == Running("S_RETURN") /\ Commit(s_return(S)) /\ UNCHANGED notEval
OpCatch == Running("op_catch") /\ Commit(op_catch(S)) /\ UNCHANGED notEval
OpWithInput == Running("S_WITH_INPUT") /\ Commit(s_with_input(S)) /\ UNCHANGED notEval
OpWithOutput == Running("S_WITH_OUTPUT") /\ Commit(s_with_output(S)) /\ UNCHANGED notEval
ApplyNative == Running("apply_native") /\ Commit(apply_native(S)) /\ UNCHANGED notEval
OpListProcesses == Running("op_list_processes") /\ Commit(op_list_processes(S)) /\ UNCHANGED notEval
LispTry == Running("lisp_try") /\ Commit(lisp_try(S)) /\ UNCHANGED notEval


(***************************************************************************)
(* substring                                                               *)
(*                                                                         *)
(* A string is modelled by its bytes; the byte after the last one is the   *)
(* NUL terminator that lisp_string_new stores (t[length] = 0).             *)
(***************************************************************************)
MaxChars == 3        \* strings of at most this many characters
MaxIndex == 5        \* start and end range over -1 .. MaxIndex

CharA     == <<97>>          \* "a", one byte
CharE     == <<195, 169>>    \* U+00E9, two bytes
CharEuro  == <<226, 130, 172>> \* U+20AC, three bytes
Chars     == {CharA, CharE, CharEuro}

\* All UTF-8 strings of at most n characters over Chars.
RECURSIVE StringsUpTo(_)
StringsUpTo(n) ==
    IF n = 0 THEN {<<>>}
    ELSE LET shorter == StringsUpTo(n - 1)
         IN shorter \cup {s \o c : s \in shorter, c \in Chars}

\* s->buf[i], 0-based; buf[length] is the terminator.
ByteAt(s, i) == IF i >= 0 /\ i < Len(s) THEN s[i + 1] ELSE 0

\* (c & 0xc0) == 0x80: c is a UTF-8 continuation byte.
IsContinuation(c) == (c \div 64) % 4 = 2

\* while ((s->buf[end] & 0xc0) == 0x80) end++;
RECURSIVE AdvanceEnd(_, _)
AdvanceEnd(s, end) ==
    IF IsContinuation(ByteAt(s, end)) THEN AdvanceEnd(s, end + 1) ELSE end

NoResult == [kind |-> "none"]

\* lisp_string_new(vm, buf + from, n): n is a size_t.  A negative int n wraps
\* to a huge size, lisp_alloc(n + 1) rounds it to a block size of 0 or fails
\* its assertion, and strncpy reads from buf + from: undefined behaviour.
StringNew(s, from, n) ==
    IF n < 0 \/ from > Len(s)
    THEN [kind |-> "undefined", from |-> from, n |-> n]
    ELSE [kind |-> "string", from |-> from, n |-> n,
          bytes |-> SubSeq(s, from + 1, from + n)]

\* case S_SUBSTRING of apply_primitive.
Substring(s, start, hasEnd, endArg) ==
    LET end0 == IF hasEnd THEN endArg ELSE Len(s)
    IN IF start >= 0 /\ start <= end0
       THEN LET end1 == IF end0 > Len(s) THEN Len(s) ELSE end0
                end2 == AdvanceEnd(s, end1)
            IN IF start < Len(s) /\ IsContinuation(ByteAt(s, start))
               THEN [kind |-> "error", msg |-> "bad first byte"]
               ELSE StringNew(s, start, end2 - start)
       ELSE [kind |-> "error", msg |-> "bad range"]

SubIdle == sub_in = [s |-> <<>>, start |-> 0, hasEnd |-> FALSE, end |-> 0]
           /\ sub_res = NoResult

OpSubstring ==
    /\ sub_res = NoResult
    /\ sub_res' = Substring(sub_in.s, sub_in.start, sub_in.hasEnd, sub_in.end)
    /\ UNCHANGED <<sub_in, notSub>>

(***************************************************************************)
(* The object pool and the garbage collector                               *)
(*                                                                         *)
(* g_heap is the memory of the VM: object o is g_heap[o], a record with    *)
(* the type tag, the reference fields in declaration order (refs), the     *)
(* capacity of an array or dictionary (cap) and, for the lookup table of a *)
(* dictionary, the pairs stored in its items beyond count (slots).  A      *)
(* reference is the number of an object, 0 for NULL, StaticRef for an      *)
(* object of static storage (a static symbol, LISP_NIL, LISP_UNDEF) and    *)
(* FrameMarkRef for LISP_FRAME_MARK.  Memory is never handed out twice in  *)
(* the model, so a reference to a deleted object stays recognisable.       *)
(*                                                                         *)
(*   pair            <<mapping, car, cdr>>                                 *)
(*   env             <<bindings, parent>>                                  *)
(*   proc            <<env, lambda>>                                       *)
(*   port            <<iobuf, name, stream, src_file>>                     *)
(*   source_file     <<mappings, path>>                                    *)
(*   source_mapping  <<file, expr>>                                        *)
(*   array           items[0 .. count-1]                                   *)
(*   dict            items[0] (the lookup table) and the binding pairs     *)
(***************************************************************************)
DICT_LOOKUP_COUNT == 8

\* The capacity the pool starts with (INIPOOLSIZE, scaled down) and the
\* number of operations a run makes.
PoolCap == 24
MaxGcSteps == 4

StaticRef == -1
FrameMarkRef == -2

\* F(x), with x computed once and before F: the statements of a C function
\* run one after the other, each on the state the previous one left.
With(x, F(_)) == CHOOSE r \in {F(v) : v \in {x}} : TRUE

\* The reference fields of a zeroed object.
ZeroFields(type) ==
    CASE type = "pair" -> <<0, 0, 0>>
      [] type = "env" -> <<0, 0>>
      [] type = "proc" -> <<0, 0>>
      [] type = "port" -> <<0, 0, 0, 0>>
      [] type = "source_file" -> <<0, 0>>
      [] type = "source_mapping" -> <<0, 0>>
      [] OTHER -> <<>>

\* The VM as the operators below see it; ret is the pointer the last
\* operator returned.
G ==
    [heap |-> g_heap, pool |-> g_pool, cap |-> g_cap, vm |-> g_vm,
     freed |-> g_freed, ret |-> 0, gcs |-> <<>>]

GcCommit(g) ==
    /\ g_heap' = g.heap
    /\ g_pool' = g.pool
    /\ g_cap' = g.cap
    /\ g_vm' = g.vm
    /\ g_freed' = g.freed
    /\ g_log' = g.gcs

\* The roots in the order gc() marks them.
GcRootsWithoutLastEval(vm) ==
    <<vm.stack, vm.env, vm.root_env, vm.input, vm.output, vm.error, vm.token,
      vm.symbols, vm.source_files, vm.keep_alive_pool>>

GcRoots(vm) ==
    <<vm.stack, vm.env, vm.root_env, vm.input, vm.output, vm.error, vm.token,
      vm.last_eval, vm.symbols, vm.source_files, vm.keep_alive_pool>>

\* The references mark() follows out of an object: a dictionary's binding
\* pairs but not its lookup table, a port's iobuf, name and stream but not
\* its src_file, and every reference field of the other types.
Marks(o) ==
    CASE o.type = "dict" -> Tail(o.refs)
      [] o.type = "port" -> SubSeq(o.refs, 1, 3)
      [] OTHER -> o.refs

\* What mark() flags on entering an object: the object, and the lookup table
\* of a dictionary.
Flags(o, obj) ==
    IF o.type = "dict" /\ o.refs[1] > 0 THEN {obj, o.refs[1]} ELSE {obj}

\* mark(obj): `marked' is the set of objects whose marked bit is set.  NULL
\* and the objects of static storage, whose references are static too, are
\* not followed.
RECURSIVE mark(_, _, _), MarkEach(_, _, _, _)
mark(heap, marked, obj) ==
    IF obj <= 0 \/ obj \in marked
    THEN marked
    ELSE MarkEach(heap, marked \cup Flags(heap[obj], obj), Marks(heap[obj]), 1)

MarkEach(heap, marked, objs, i) ==
    IF i > Len(objs)
    THEN marked
    ELSE With(mark(heap, marked, objs[i]),
              LAMBDA m : MarkEach(heap, m, objs, i + 1))

\* gc(vm): clear the marks of the pool, mark from the roots, delete every
\* unmarked object of the pool and compact the pool.
gc(g) ==
    With(MarkEach(g.heap, {}, GcRoots(g.vm), 1), LAMBDA marked :
    [g EXCEPT !.pool = SelectSeq(@, LAMBDA o : o \in marked),
              !.freed = @ \cup ({g.pool[i] : i \in DOMAIN g.pool} \ marked)])

\* new_obj(vm, type): the collector runs only when the pool is full, and the
\* pool doubles when the collection left it more than half full.  The
\* object comes zeroed from lisp_alloc.
Grown(g) ==
    [g EXCEPT !.cap = IF Len(g.pool) > @ \div 2 THEN 2 * @ ELSE @]

Allocated(g, type) ==
    [g EXCEPT !.heap = Append(@, [type |-> type, refs |-> ZeroFields(type),
                                  cap |-> 0, slots |-> {}]),
              !.pool = Append(@, Len(g.heap) + 1),
              !.ret = Len(g.heap) + 1]

\* A call of gc is noted with its caller and the state of the pool.
Started(g, by) ==
    [g EXCEPT !.gcs = Append(@, [by |-> by, count |-> Len(g.pool),
                                 cap |-> g.cap])]

\* A variant of new_obj that collects at every allocation.
new_obj_collecting(g, type) ==
    With(gc(Started(g, "new_obj")), LAMBDA c :
         Allocated(IF Len(g.pool) = g.cap THEN Grown(c) ELSE c, type))

new_obj(g, type) ==
    IF Len(g.pool) = g.cap
    THEN With(gc(Started(g, "new_obj")), LAMBDA c : Allocated(Grown(c), type))
    ELSE Allocated(g, type)

SetField(g, o, i, v) == [g EXCEPT !.heap[o].refs[i] = v]
SetFields(g, o, fields) == [g EXCEPT !.heap[o].refs = fields]
Returning(g, o) == [g EXCEPT !.ret = o]

lisp_array_new(g, cap) ==
    With(new_obj(g, "array"),
         LAMBDA g1 : [g1 EXCEPT !.heap[g1.ret].cap = IF cap > 4 THEN cap ELSE 4])

Pushed(a, obj) ==
    [a EXCEPT !.refs = Append(@, obj),
              !.cap = IF Len(a.refs) = @ THEN 2 * @ ELSE @]

lisp_array_push(g, a, obj) == [g EXCEPT !.heap[a] = Pushed(@, obj)]

lisp_push(g, obj) == lisp_array_push(g, g.vm.stack, obj)

StackItems(g) == g.heap[g.vm.stack].refs
StackCount(g) == Len(StackItems(g))

lisp_pop(g, n) ==
    [g EXCEPT !.heap[g.vm.stack].refs = SubSeq(@, 1, Len(@) - n),
              !.ret = StackItems(g)[StackCount(g)]]

lisp_top(g, n) == StackItems(g)[StackCount(g) - n]

TypeOf(g, o) == IF o > 0 THEN g.heap[o].type ELSE "static"

\* A number, string, symbol, buffer or stream: an object without reference
\* fields.
NewLeaf(g, type) == new_obj(g, type)

lisp_pair_new(g, car, cdr) ==
    With(new_obj(g, "pair"),
         LAMBDA g1 : SetFields(g1, g1.ret, <<0, car, cdr>>))

\* lisp_cons: the two topmost values are replaced by their pair.
lisp_cons(g) ==
    With(lisp_pair_new(g, lisp_top(g, 1), lisp_top(g, 0)), LAMBDA g1 :
    [g1 EXCEPT !.heap[g.vm.stack].refs =
                   Append(SubSeq(@, 1, Len(@) - 2), g1.ret)])

lisp_dict_new(g, n) ==
    With(lisp_array_new(g, n), LAMBDA g1 :
    [g1 EXCEPT !.heap[g1.ret].type = "dict", !.heap[g1.ret].refs = <<0>>])

\* lisp_dict_add_item: past DICT_LOOKUP_COUNT items the dictionary keeps a
\* lookup table in items[0], an array of twice the capacity whose count
\* stays 0; it is rebuilt when the dictionary has grown.
Items(d) == {d.refs[i] : i \in 2 .. Len(d.refs)}

TableAdd(g, dict, p) ==
    IF Len(g.heap[dict].refs) > DICT_LOOKUP_COUNT
    THEN IF g.heap[dict].refs[1] = 0
            \/ g.heap[g.heap[dict].refs[1]].cap < g.heap[dict].cap * 2
         THEN With(lisp_array_new(g, g.heap[dict].cap * 2), LAMBDA g2 :
              [g2 EXCEPT !.heap[dict].refs[1] = g2.ret,
                         !.heap[g2.ret].slots = Items(g.heap[dict])])
         ELSE [g EXCEPT !.heap[g.heap[dict].refs[1]].slots = @ \cup {p}]
    ELSE g

lisp_dict_add_item(g, dict, p) ==
    With(lisp_array_push(g, dict, p), LAMBDA g1 : TableAdd(g1, dict, p))

lisp_dict_add(g, dict, name, val) ==
    With(lisp_pair_new(g, name, val),
         LAMBDA g1 : With(lisp_dict_add_item(g1, dict, g1.ret),
                          LAMBDA g2 : Returning(g2, g1.ret)))

lisp_dict_clear(g, dict) == [g EXCEPT !.heap[dict].refs = <<0>>]

\* lisp_env_new, lisp_begin_env and lisp_end_env.
GcEnvNew(g, parent) ==
    With(new_obj(g, "env"), LAMBDA g1 :
    With(lisp_push(g1, g1.ret), LAMBDA g2 :
    With(lisp_dict_new(g2, 8), LAMBDA g3 :
    With(SetFields(g3, g1.ret, <<g3.ret, parent>>), LAMBDA g4 :
    Returning(lisp_pop(g4, 1), g1.ret)))))

GcBeginEnv(g, parent) ==
    With(lisp_push(g, FrameMarkRef), LAMBDA g1 :
    With(lisp_push(g1, g.vm.env), LAMBDA g2 :
    With(GcEnvNew(g2, parent), LAMBDA g3 :
    [g3 EXCEPT !.vm.env = g3.ret])))

GcEndEnv(g) ==
    [g EXCEPT !.vm.env = lisp_top(g, 1),
              !.heap[g.vm.stack].refs =
                  Append(SubSeq(@, 1, Len(@) - 3), @[Len(@)])]

\* lisp_make_symbol for a name that is in no table yet.
GcMakeSymbol(g) ==
    With(new_obj(g, "symbol"), LAMBDA g1 :
    With(lisp_push(g1, g1.ret), LAMBDA g2 :
    With(lisp_dict_add(g2, g2.vm.symbols, g1.ret, StaticRef), LAMBDA g3 :
    Returning(g3, g1.ret))))

\* A file port: lisp_open_input_file, with the path string as its name, and
\* lisp_open_output_file, which leaves the name NULL.
GcOpenFile(g, name) ==
    With(new_obj(g, "port"), LAMBDA g1 :
    With(lisp_push(g1, g1.ret), LAMBDA g2 :
    With(new_obj(g2, "stream"), LAMBDA g3 :
    With(new_obj(SetFields(g3, g1.ret, <<0, name, g3.ret, 0>>), "buffer"),
         LAMBDA g4 :
    With(SetField(g4, g1.ret, 1, g4.ret), LAMBDA g5 :
    Returning(lisp_pop(g5, 1), g1.ret))))))

\* ensure_source_file for a path that is not in vm->source_files yet.
GcEnsureSourceFile(g, path) ==
    With(new_obj(g, "source_file"), LAMBDA g1 :
    With(lisp_push(g1, g1.ret), LAMBDA g2 :
    With(lisp_array_new(SetField(g2, g1.ret, 2, path), 64), LAMBDA g3 :
    With(SetField(g3, g1.ret, 1, g3.ret), LAMBDA g4 :
    With(GcMakeSymbol(g4), LAMBDA g5 :
    With(lisp_dict_add(g5, g5.vm.source_files, lisp_top(g5, 0), g1.ret),
         LAMBDA g6 :
    Returning(lisp_pop(g6, 2), g1.ret)))))))

\* lisp_vm_new with a pool of capacity cap.
GcVmNew(cap) ==
    With(lisp_array_new(
             [heap |-> <<>>, pool |-> <<>>, cap |-> cap, freed |-> {},
              ret |-> 0, gcs |-> <<>>,
              vm |-> [stack |-> 0, env |-> 0, root_env |-> 0, input |-> 0,
                      output |-> 0, error |-> 0, token |-> 0, last_eval |-> 0,
                      symbols |-> 0, source_files |-> 0,
                      keep_alive_pool |-> 0]], 512), LAMBDA g1 :
    With(lisp_dict_new([g1 EXCEPT !.vm.stack = g1.ret], 512), LAMBDA g2 :
    With(lisp_dict_new([g2 EXCEPT !.vm.symbols = g2.ret], 64), LAMBDA g3 :
    With(lisp_array_new([g3 EXCEPT !.vm.source_files = g3.ret], 16),
         LAMBDA g4 :
    With(GcEnvNew([g4 EXCEPT !.vm.keep_alive_pool = g4.ret], 0), LAMBDA g5 :
    With(GcOpenFile([g5 EXCEPT !.vm.env = g5.ret, !.vm.root_env = g5.ret], 0),
         LAMBDA g6 :
    With(GcOpenFile([g6 EXCEPT !.vm.output = g6.ret], 0), LAMBDA g7 :
    With(new_obj([g7 EXCEPT !.vm.error = g7.ret], "buffer"), LAMBDA g8 :
    [g8 EXCEPT !.vm.token = g8.ret, !.vm.last_eval = StaticRef]))))))))

\* The start of lisp_load_file: the path string is pushed, the file is
\* opened as vm->input and its source file is registered.
GcLoadFile(g) ==
    With(new_obj(g, "string"), LAMBDA g1 :
    With(lisp_push(g1, g1.ret), LAMBDA g2 :
    With(GcOpenFile(g2, g1.ret), LAMBDA g3 :
    With(GcEnsureSourceFile([g3 EXCEPT !.vm.input = g3.ret], g1.ret),
         LAMBDA g4 :
    SetField(g4, g3.ret, 4, g4.ret)))))

\* lisp_defvar of a name the current environment does not bind, and
\* lisp_setvar of a binding p the environment chain holds; the value is on
\* top of the stack.
GcDefVar(g) ==
    lisp_dict_add(g, g.heap[g.vm.env].refs[1], StaticRef, lisp_top(g, 0))

GcSetVar(g, p) == SetField(g, p, 3, lisp_top(g, 0))

RECURSIVE EnvChain(_, _)
EnvChain(g, e) ==
    IF e <= 0 THEN {} ELSE {e} \cup EnvChain(g, g.heap[e].refs[2])

VisibleBindings(g) ==
    UNION {Items(g.heap[g.heap[e].refs[1]]) : e \in EnvChain(g, g.vm.env)}

\* op_lambda: the procedure closes over the current environment; its
\* lambda list is the pair on top of the stack.
GcLambda(g) ==
    With(new_obj(g, "proc"), LAMBDA g1 :
    lisp_push(SetFields(g1, g1.ret, <<g.vm.env, lisp_top(g, 0)>>), g1.ret))

\* begin_expr_mapping and end_expr_mapping of the reader.
SrcFile(g) == g.heap[g.vm.input].refs[4]

GcBeginExprMapping(g) ==
    With(new_obj(g, "source_mapping"), LAMBDA g1 :
    lisp_push(SetField(g1, g1.ret, 1, SrcFile(g)), g1.ret))

GcEndExprMapping(g) ==
    With(SetField(SetField(g, lisp_top(g, 1), 2, lisp_top(g, 0)),
                  lisp_top(g, 0), 1, lisp_top(g, 1)), LAMBDA g1 :
    With(lisp_array_push(g1, g.heap[SrcFile(g)].refs[1], lisp_top(g, 1)),
         LAMBDA g2 :
    [g2 EXCEPT !.heap[g.vm.stack].refs =
                   Append(SubSeq(@, 1, Len(@) - 2), @[Len(@)])]))

\* lisp_vm_gc(vm, clear_keep_alive)
lisp_vm_gc(g, clear_keep_alive) ==
    IF clear_keep_alive
    THEN With([g EXCEPT !.heap[g.vm.keep_alive_pool].refs = <<>>],
              LAMBDA g1 : gc(Started(g1, "lisp_vm_gc")))
    ELSE gc(Started(g, "lisp_vm_gc"))

\* Every reference an object holds, marked by mark() or not.
AllRefs(o) == {o.refs[i] : i \in DOMAIN o.refs} \cup o.slots

RECURSIVE Closure(_, _)
Closure(heap, objs) ==
    With(objs \cup {r \in UNION {AllRefs(heap[o]) : o \in objs} : r > 0},
         LAMBDA next : IF next = objs THEN objs ELSE Closure(heap, next))

\* The objects reachable from the root set.
Reachable(heap, vm) ==
    Closure(heap, {vm[f] : f \in DOMAIN vm} \cap (1 .. Len(heap)))

\* The VMs that have opened their input and then defined n variables in the
\* root environment, each value pushed, bound and popped.
DefineOne(g) ==
    With(NewLeaf(g, "number"), LAMBDA g1 :
    With(lisp_push(g1, g1.ret), LAMBDA g2 :
    With(GcDefVar(g2), LAMBDA g3 : lisp_pop(g3, 1))))

RECURSIVE AfterDefines(_)
AfterDefines(n) ==
    IF n = 0
    THEN {GcLoadFile(g) : g \in {GcVmNew(PoolCap)}}
    ELSE {DefineOne(g) : g \in AfterDefines(n - 1)}

GcIdle ==
    /\ g_heap = <<>>
    /\ g_pool = <<>>
    /\ g_cap = 0
    /\ g_vm = [stack |-> 0]
    /\ g_freed = {}
    /\ g_log = <<>>
    /\ g_steps = 0

\* A run starts from a VM that has opened its input, and has defined either
\* nothing or one variable fewer than make a dictionary build its table.
GcInit ==
    /\ \E g \in AfterDefines(0) \cup AfterDefines(DICT_LOOKUP_COUNT - 1) :
           /\ g_heap = g.heap
           /\ g_pool = g.pool
           /\ g_cap = g.cap
           /\ g_vm = g.vm
           /\ g_freed = g.freed
    /\ g_log = <<>>
    /\ g_steps = 0

GcMore == g_steps < MaxGcSteps

GcStep(next) ==
    /\ g_steps' = g_steps + 1
    /\ \E g \in {next} : GcCommit(g)
    /\ UNCHANGED notGc

\* lisp_push_number
GcPushNumber ==
    /\ GcMore
    /\ GcStep(With(NewLeaf(G, "number"), LAMBDA g : lisp_push(g, g.ret)))

GcSymbol == GcMore /\ GcStep(GcMakeSymbol(G))

GcCons == GcMore /\ StackCount(G) >= 2 /\ GcStep(lisp_cons(G))

GcPop == GcMore /\ StackCount(G) >= 1 /\ GcStep(lisp_pop(G, 1))

GcDefineVar == GcMore /\ StackCount(G) >= 1 /\ GcStep(GcDefVar(G))

GcSetVariable ==
    /\ GcMore
    /\ StackCount(G) >= 1
    /\ \E p \in VisibleBindings(G) : GcStep(GcSetVar(G, p))

GcOpLambda ==
    /\ GcMore
    /\ StackCount(G) >= 1
    /\ TypeOf(G, lisp_top(G, 0)) = "pair"
    /\ GcStep(GcLambda(G))

\* apply_procedure enters the body in a child of the procedure's
\* environment; op_let in a child of the current one.
GcEnter ==
    /\ GcMore
    /\ \E parent \in {g_vm.env} \cup
                     (IF StackCount(G) >= 1 /\ TypeOf(G, lisp_top(G, 0)) = "proc"
                      THEN {g_heap[lisp_top(G, 0)].refs[1]} ELSE {}) :
           GcStep(GcBeginEnv(G, parent))

GcLeave ==
    /\ GcMore
    /\ StackCount(G) >= 3
    /\ lisp_top(G, 2) = FrameMarkRef
    /\ TypeOf(G, lisp_top(G, 1)) = "env"
    /\ GcStep(GcEndEnv(G))

\* clear_env, at the start of bind_args
GcClearEnv == GcMore /\ GcStep(lisp_dict_clear(G, g_heap[g_vm.env].refs[1]))

\* vm->last_eval = lisp_pop(vm, 1) of lisp_vm_run
GcLastEval ==
    /\ GcMore
    /\ StackCount(G) >= 1
    /\ lisp_top(G, 0) # FrameMarkRef
    /\ GcStep(With(lisp_pop(G, 1), LAMBDA g : [g EXCEPT !.vm.last_eval = g.ret]))

\* lisp_keep_alive
GcKeepAlive ==
    /\ GcMore
    /\ StackCount(G) >= 1
    /\ lisp_top(G, 0) # FrameMarkRef
    /\ GcStep(lisp_array_push(G, g_vm.keep_alive_pool, lisp_top(G, 0)))

\* The reader reads the list (n): begin_expr_mapping, the number and the
\* empty list pushed and consed, end_expr_mapping.
GcRead ==
    /\ GcMore
    /\ GcStep(With(GcBeginExprMapping(G), LAMBDA g1 :
              With(NewLeaf(g1, "number"), LAMBDA g2 :
              With(lisp_cons(lisp_push(lisp_push(g2, g2.ret), StaticRef)),
                   LAMBDA g3 : GcEndExprMapping(g3)))))

LispVmGc == GcMore /\ \E clear \in BOOLEAN : GcStep(lisp_vm_gc(G, clear))

(***************************************************************************)
(* Ownership and immutability: the primitives that change an object        *)
(*                                                                         *)
(* Two VMs: the current one, "child", and its parent.  The child reaches   *)
(* the parent's objects through the parent's root environment, which       *)
(* lisp_vm_set_parent makes the parent of its own.  An object is a record  *)
(* of its type, its vm field, its is_const bit and its items: the elements *)
(* of an array, the bytes of a buffer, the bindings of a dictionary.  A    *)
(* dictionary value of 0 stands for LISP_UNDEF.                            *)
(***************************************************************************)
\* The value the writes store, an index past every object, and the number
\* of primitives a run applies.
MutVal == 7
MutBadIndex == 5
MaxMutSteps == 3

\* The reader's literals (mkarray, T_BUFFER, mkdict: is_const set, owned by
\* the VM that read them), objects the child made at run time, and objects
\* of the parent.
Literal(type, items) ==
    [type |-> type, vm |-> "child", is_const |-> TRUE, items |-> items]
Fresh(type, vm, items) ==
    [type |-> type, vm |-> vm, is_const |-> FALSE, items |-> items]

MutObjects ==
    [arr_lit |-> Literal("array", <<1, 2>>),
     arr_own |-> Fresh("array", "child", <<1, 2>>),
     arr_par |-> Fresh("array", "parent", <<1, 2>>),
     buf_lit |-> Literal("buffer", <<1, 2>>),
     buf_own |-> Fresh("buffer", "child", <<1, 2>>),
     buf_par |-> Fresh("buffer", "parent", <<1, 2>>),
     dict_lit |-> Literal("dict", <<[k |-> "a", v |-> 1]>>),
     dict_own |-> Fresh("dict", "child", <<[k |-> "a", v |-> 1]>>),
     dict_par |-> Fresh("dict", "parent", <<[k |-> "a", v |-> 1]>>)]

\* vm->env of the child at top level: its root environment, then the
\* parent's.  Each frame carries bindings->vm.
MutEnv ==
    <<[vm |-> "child", bindings |-> <<[k |-> "x", v |-> 1]>>],
      [vm |-> "parent", bindings |-> <<[k |-> "y", v |-> 2]>>]>>

MutNames == {"x", "y", "z"}
MutKeys == {"a", "b"}

M ==
    [objs |-> m_objs, ports |-> m_ports, env |-> m_env, last |-> m_last,
     status |-> m_status]

MutCommit(m) ==
    /\ m_objs' = m.objs
    /\ m_ports' = m.ports
    /\ m_env' = m.env
    /\ m_last' = m.last
    /\ m_status' = m.status

OfType(m, type) == {o \in DOMAIN m.objs : m.objs[o].type = type}

\* What the last primitive did: its name, whether it is one that changes
\* its target, the target with its owner, is_const bit and items before the
\* call, and how the call ended.
Outcome(m0, m, op, kind, target, owner, const, before, result, msg) ==
    [m EXCEPT !.last = [op |-> op, kind |-> kind, target |-> target,
                        owner |-> owner, is_const |-> const,
                        before |-> before, result |-> result, msg |-> msg]]

\* lisp_err: the primitive ends with an error and the state as it was.
MutErr(m, op, kind, o, msg) ==
    Outcome(m, m, op, kind, o, m.objs[o].vm, m.objs[o].is_const,
            m.objs[o].items, "error", msg)

MutOk(m0, m, op, kind, o) ==
    Outcome(m0, m, op, kind, o, m0.objs[o].vm, m0.objs[o].is_const,
            m0.objs[o].items, "ok", "")

\* A failed assert ends the process.
MutAbort(m, op, o) ==
    [Outcome(m, m, op, "mutate", o, m.objs[o].vm, m.objs[o].is_const,
             m.objs[o].items, "abort", "assert")
     EXCEPT !.status = "aborted"]

\* Undefined behaviour: the run is not followed further.
MutUndefined(m, op, o) ==
    [Outcome(m, m, op, "mutate", o, m.objs[o].vm, m.objs[o].is_const,
             m.objs[o].items, "undefined", "")
     EXCEPT !.status = "undefined"]

\* vm_check(x): `x' is the vm field of the target.
VmCheckFails(x) == x # "child"

\* case S_ARRAY_GET
array_get(m, a, index) ==
    IF index < 0 \/ index >= Len(m.objs[a].items)
    THEN MutErr(m, "array-get", "read", a, "array-get: out of bound")
    ELSE MutOk(m, m, "array-get", "read", a)

\* case S_ARRAY_SET
array_set(m, a, index, v) ==
    IF VmCheckFails(m.objs[a].vm)
    THEN MutErr(m, "array-set!", "mutate", a, "Can not modify foreign object")
    ELSE IF index < 0 \/ index >= Len(m.objs[a].items)
    THEN MutErr(m, "array-set!", "mutate", a, "array-set: out of bound")
    ELSE MutOk(m, [m EXCEPT !.objs[a].items[index + 1] = v],
               "array-set!", "mutate", a)

\* case S_ARRAY_POP: lisp_array_pop asserts that the array is not empty;
\* without the assert it reads items[-1] and count wraps around.
array_pop(m, a, nodebug) ==
    IF VmCheckFails(m.objs[a].vm)
    THEN MutErr(m, "array-pop!", "mutate", a, "Can not modify foreign object")
    ELSE IF m.objs[a].items = <<>>
    THEN IF nodebug THEN MutUndefined(m, "array-pop!", a)
         ELSE MutAbort(m, "array-pop!", a)
    ELSE MutOk(m, [m EXCEPT !.objs[a].items = SubSeq(@, 1, Len(@) - 1)],
               "array-pop!", "mutate", a)

\* case S_ARRAY_PUSH
array_push(m, a, v) ==
    IF VmCheckFails(m.objs[a].vm)
    THEN MutErr(m, "array-push!", "mutate", a, "Can not modify foreign object")
    ELSE MutOk(m, [m EXCEPT !.objs[a].items = Append(@, v)],
               "array-push!", "mutate", a)

\* lisp_dict_assoc: the index of the binding of key k, 0 when there is none.
DictIndex(items, k) ==
    IF \E i \in DOMAIN items : items[i].k = k
    THEN CHOOSE i \in DOMAIN items :
             items[i].k = k /\ \A j \in 1 .. i - 1 : items[j].k # k
    ELSE 0

\* case S_DICT_GET
dict_get(m, d, k) == MutOk(m, m, "dict-get", "read", d)

\* case S_DICT_SET
dict_set(m, d, k, v) ==
    IF VmCheckFails(m.objs[d].vm)
    THEN MutErr(m, "dict-set!", "mutate", d, "Can not modify foreign object")
    ELSE IF DictIndex(m.objs[d].items, k) # 0
    THEN MutOk(m, [m EXCEPT !.objs[d].items[DictIndex(m.objs[d].items, k)].v = v],
               "dict-set!", "mutate", d)
    ELSE MutOk(m, [m EXCEPT !.objs[d].items = Append(@, [k |-> k, v |-> v])],
               "dict-set!", "mutate", d)

\* case S_DICT_UNSET: lisp_dict_remove sets the value to LISP_UNDEF.
dict_unset(m, d, k) ==
    IF VmCheckFails(m.objs[d].vm)
    THEN MutErr(m, "dict-unset!", "mutate", d, "Can not modify foreign object")
    ELSE IF DictIndex(m.objs[d].items, k) # 0
    THEN MutOk(m, [m EXCEPT !.objs[d].items[DictIndex(m.objs[d].items, k)].v = 0],
               "dict-unset!", "mutate", d)
    ELSE MutOk(m, m, "dict-unset!", "mutate", d)

\* case S_CLEAR: lisp_buffer_clear asserts that the buffer is not constant.
clear_obj(m, o, nodebug) ==
    IF VmCheckFails(m.objs[o].vm)
    THEN MutErr(m, "clear", "mutate", o, "Can not modify foreign object")
    ELSE IF m.objs[o].type = "buffer" /\ m.objs[o].is_const /\ ~nodebug
    THEN MutAbort(m, "clear", o)
    ELSE MutOk(m, [m EXCEPT !.objs[o].items = <<>>], "clear", "mutate", o)

\* op_buffer_get(uint8_t, 1)
buffer_get(m, b, i) ==
    IF i < 0 \/ i + 1 > Len(m.objs[b].items)
    THEN MutErr(m, "buffer-getu8", "read", b, "Bad offset")
    ELSE MutOk(m, m, "buffer-getu8", "read", b)

\* op_buffer_set(uint8_t, 1)
buffer_set(m, b, i, v) ==
    IF VmCheckFails(m.objs[b].vm)
    THEN MutErr(m, "buffer-setu8!", "mutate", b, "Can not modify foreign object")
    ELSE IF i < 0 \/ i + 1 > Len(m.objs[b].items)
    THEN MutErr(m, "buffer-setu8!", "mutate", b, "Bad offset")
    ELSE MutOk(m, [m EXCEPT !.objs[b].items[i + 1] = v],
               "buffer-setu8!", "mutate", b)

\* case S_OPEN_OUTPUT_BUFFER and lisp_open_output_buffer: the port belongs
\* to the current VM and writes into the buffer it is given.
open_output_buffer(m, b) ==
    MutOk(m, [m EXCEPT !.ports = @ \cup {[vm |-> "child", iobuf |-> b]}],
          "open-output-buffer", "read", b)

\* case S_WRITE_STRING of a one-byte string to a buffer port:
\* lisp_port_puts adds the byte to port->iobuf with lisp_buffer_add_byte,
\* which asserts that the buffer is not constant.
write_string(m, port, c, nodebug) ==
    IF m.objs[port.iobuf].is_const /\ ~nodebug
    THEN MutAbort(m, "write-string", port.iobuf)
    ELSE MutOk(m, [m EXCEPT !.objs[port.iobuf].items = Append(@, c)],
               "write-string", "mutate", port.iobuf)

\* The first frame of the environment chain that binds name, 0 when none.
BindingFrame(chain, name) ==
    IF \E i \in DOMAIN chain : DictIndex(chain[i].bindings, name) # 0
    THEN CHOOSE i \in DOMAIN chain :
             /\ DictIndex(chain[i].bindings, name) # 0
             /\ \A j \in 1 .. i - 1 : DictIndex(chain[j].bindings, name) = 0
    ELSE 0

EnvOutcome(m0, m, op, kind, name, result, msg) ==
    LET f == BindingFrame(m0.env, name)
    IN Outcome(m0, m, op, kind, name,
               IF f = 0 THEN "none" ELSE m0.env[f].vm, FALSE,
               IF f = 0 THEN <<>> ELSE m0.env[f].bindings, result, msg)

\* lisp_getvar
MutGetVar(m, name) ==
    IF BindingFrame(m.env, name) = 0
    THEN EnvOutcome(m, m, "lookup", "read", name, "error", "Undefined variable")
    ELSE EnvOutcome(m, m, "lookup", "read", name, "ok", "")

\* lisp_setvar
MutSetVar(m, name, v) ==
    LET f == BindingFrame(m.env, name)
    IN IF f = 0
       THEN EnvOutcome(m, m, "set!", "mutate", name, "error",
                       "Undefined variable")
       ELSE IF m.env[f].vm # "child"
       THEN EnvOutcome(m, m, "set!", "mutate", name, "error",
                       "Can not modify variable in foreign environment")
       ELSE EnvOutcome(m, [m EXCEPT !.env[f].bindings[
                                        DictIndex(m.env[f].bindings, name)].v = v],
                       "set!", "mutate", name, "ok", "")

\* lisp_defvar: the binding is made or changed in vm->env itself.
MutDefVar(m, name, v) ==
    LET i == DictIndex(m.env[1].bindings, name)
        done == [op |-> "define", kind |-> "mutate", target |-> name,
                owner |-> m.env[1].vm, is_const |-> FALSE,
                before |-> m.env[1].bindings, result |-> "ok", msg |-> ""]
    IN IF i = 0
       THEN [m EXCEPT !.env[1].bindings = Append(@, [k |-> name, v |-> v]),
                      !.last = done]
       ELSE [m EXCEPT !.env[1].bindings[i].v = v, !.last = done]

MutIdle ==
    /\ m_objs = <<>>
    /\ m_ports = {}
    /\ m_env = <<>>
    /\ m_last = [op |-> "none"]
    /\ m_status = "idle"
    /\ m_ndebug = FALSE
    /\ m_steps = 0

NoOutcome ==
    [op |-> "none", kind |-> "none", target |-> "none", owner |-> "none",
     is_const |-> FALSE, before |-> <<>>, result |-> "ok", msg |-> ""]

MutInit ==
    /\ m_objs = MutObjects
    /\ m_ports = {}
    /\ m_env = MutEnv
    /\ m_last = NoOutcome
    /\ m_status = "running"
    /\ m_ndebug \in BOOLEAN
    /\ m_steps = 0

\* The run goes on until an assert fails, undefined behaviour is met or
\* the bound on its length is reached.
MutMore == m_status = "running" /\ m_steps < MaxMutSteps

MutStep(next) ==
    /\ m_steps' = m_steps + 1
    /\ MutCommit(next)
    /\ UNCHANGED <<m_ndebug, notMut>>

MutIndexes == {0, MutBadIndex}

ArrayGet ==
    /\ MutMore
    /\ \E a \in OfType(M, "array"), i \in MutIndexes :
           MutStep(array_get(M, a, i))

ArraySet ==
    /\ MutMore
    /\ \E a \in OfType(M, "array"), i \in MutIndexes :
           MutStep(array_set(M, a, i, MutVal))

ArrayPop ==
    /\ MutMore
    /\ \E a \in OfType(M, "array") : MutStep(array_pop(M, a, m_ndebug))

ArrayPush ==
    /\ MutMore
    /\ \E a \in OfType(M, "array") : MutStep(array_push(M, a, MutVal))

DictGet ==
    /\ MutMore
    /\ \E d \in OfType(M, "dict"), k \in MutKeys : MutStep(dict_get(M, d, k))

DictSet ==
    /\ MutMore
    /\ \E d \in OfType(M, "dict"), k \in MutKeys :
           MutStep(dict_set(M, d, k, MutVal))

DictUnset ==
    /\ MutMore
    /\ \E d \in OfType(M, "dict"), k \in MutKeys :
           MutStep(dict_unset(M, d, k))

Clear ==
    /\ MutMore
    /\ \E o \in DOMAIN m_objs : MutStep(clear_obj(M, o, m_ndebug))

BufferGet ==
    /\ MutMore
    /\ \E b \in OfType(M, "buffer"), i \in MutIndexes :
           MutStep(buffer_get(M, b, i))

BufferSet ==
    /\ MutMore
    /\ \E b \in OfType(M, "buffer"), i \in MutIndexes :
           MutStep(buffer_set(M, b, i, MutVal))

OpenOutputBuffer ==
    /\ MutMore
    /\ \E b \in OfType(M, "buffer") : MutStep(open_output_buffer(M, b))

WriteString ==
    /\ MutMore
    /\ \E p \in m_ports : MutStep(write_string(M, p, MutVal, m_ndebug))

GetVar ==
    /\ MutMore
    /\ \E n \in MutNames : MutStep(MutGetVar(M, n))

SetVar ==
    /\ MutMore
    /\ \E n \in MutNames : MutStep(MutSetVar(M, n, MutVal))

DefVar ==
    /\ MutMore
    /\ \E n \in MutNames : MutStep(MutDefVar(M, n, MutVal))

(***************************************************************************)
(* Symbols: lisp_make_symbol and the symbol dictionaries                   *)
(*                                                                         *)
(* A name is the sequence of its bytes.  A symbol object is a positive     *)
(* number, its index in sy_objs, when lisp_symbol_new made it, and minus   *)
(* its index in SymTab when it is an entry of the static table; 0 is NULL. *)
(* A dictionary is its items after items[0] (each stands for the pair      *)
(* whose car is the symbol), its cap, and its lookup table items[0]: the   *)
(* cap of the table and its occupied slots, as <<slot, symbol>> pairs.     *)
(***************************************************************************)
INISYMLISTSIZE == 512
MaxSymSteps == 7

\* A part of _symtab, in its order: "car", "if", "set!".
SymTab == <<<<99, 97, 114>>, <<105, 102>>, <<115, 101, 116, 33>>>>

\* The names the VMs read one by one: "aa" and "ih", whose hashes meet in
\* one slot of a table of 1024, "if", and "zzz", whose hash overflows 32 bits.
SymNames == {<<97, 97>>, <<105, 104>>, <<105, 102>>, <<122, 122, 122>>}

\* The names of the file each VM loads: "b" .. "h" and "p" .. "v".
FileNames(vm) ==
    IF vm = "parent"
    THEN <<<<98>>, <<99>>, <<100>>, <<101>>, <<102>>, <<103>>, <<104>>>>
    ELSE <<<<112>>, <<113>>, <<114>>, <<115>>, <<116>>, <<117>>, <<118>>>>

NoTable == [cap |-> 0, used |-> {}]

RECURSIVE strcmp(_, _, _)
strcmp(a, b, i) ==
    IF i > Len(a) /\ i > Len(b) THEN 0
    ELSE IF i > Len(a) THEN -1
    ELSE IF i > Len(b) THEN 1
    ELSE IF a[i] # b[i] THEN a[i] - b[i]
    ELSE strcmp(a, b, i + 1)

\* find_sym: binary search; the result is the index of the entry, 0 for NULL.
RECURSIVE find_sym(_, _, _, _)
find_sym(table, low, high, name) ==
    IF low >= high THEN 0
    ELSE With(low + (high - low) \div 2, LAMBDA mid :
         With(strcmp(table[mid + 1], name, 1), LAMBDA cmp :
              IF cmp = 0 THEN mid + 1
              ELSE IF cmp < 0 THEN find_sym(table, mid + 1, high, name)
              ELSE find_sym(table, low, mid, name)))

\* One round of hash_cstr, hash = c + (hash << 6) + (hash << 16) - hash in
\* uint32_t: the hash is kept as its two 16-bit halves <<high, low>>.
HashRound(h, c) ==
    With(c + ((h[2] * 64) % 65536) - h[2], LAMBDA low :
    With(((h[1] * 64 + ((h[2] * 64) \div 65536)) % 65536) + h[2] - h[1],
         LAMBDA high :
             <<(high + (low \div 65536)) % 65536, low % 65536>>))

RECURSIVE HashFrom(_, _, _)
HashFrom(name, i, h) ==
    IF i > Len(name) THEN h
    ELSE With(HashRound(h, name[i]), LAMBDA r : HashFrom(name, i + 1, r))

hash_cstr(name) == HashFrom(name, 1, <<0, 0>>)

\* h % m for a hash in halves.
HashMod(h, m) == (((h[1] % m) * (65536 % m)) + (h[2] % m)) % m

\* a->items[i] of a lookup table.
SlotAt(table, i) ==
    IF \E e \in table.used : e[1] = i
    THEN (CHOOSE e \in table.used : e[1] = i)[2]
    ELSE 0

NameOf(objs, o) == IF o < 0 THEN SymTab[-o] ELSE objs[o].name

\* The loop of lookup_cstr without its wrap to the next slots: the mutation
\* of lookup_cstr.
lookup_cstr_first_slot(table, objs, name) ==
    With(SlotAt(table, HashMod(hash_cstr(name), table.cap - 1)), LAMBDA p :
         IF p # 0 /\ NameOf(objs, p) = name
         THEN [p |-> p, probes |-> 0]
         ELSE [p |-> 0, probes |-> 0])

RECURSIVE LookupFrom(_, _, _, _, _)
LookupFrom(table, objs, name, i, n) ==
    IF n >= table.cap THEN [p |-> 0, probes |-> n]
    ELSE With(SlotAt(table, i), LAMBDA p :
              IF p = 0 THEN [p |-> 0, probes |-> n]
              ELSE IF NameOf(objs, p) = name THEN [p |-> p, probes |-> n]
              ELSE LookupFrom(table, objs, name,
                              IF i + 1 >= table.cap THEN 0 ELSE i + 1, n + 1))

lookup_cstr(table, objs, name) ==
    LookupFrom(table, objs, name, HashMod(hash_cstr(name), table.cap - 1), 0)

\* lisp_dict_assoc_cstr: the symbol found, 0 for NULL, and the number of
\* occupied slots of the lookup table passed over before the answer.
lisp_dict_assoc_cstr(dict, objs, name) ==
    IF Len(dict.items) + 1 > DICT_LOOKUP_COUNT
    THEN lookup_cstr(dict.table, objs, name)
    ELSE IF \E i \in DOMAIN dict.items : NameOf(objs, dict.items[i]) = name
    THEN [p |-> dict.items[CHOOSE i \in DOMAIN dict.items :
                     /\ NameOf(objs, dict.items[i]) = name
                     /\ \A j \in 1 .. i - 1 :
                            NameOf(objs, dict.items[j]) # name],
          probes |-> 0]
    ELSE [p |-> 0, probes |-> 0]

RECURSIVE FreeSlotFrom(_, _, _)
FreeSlotFrom(table, i, n) ==
    IF SlotAt(table, i) = 0 \/ n >= table.cap THEN i
    ELSE FreeSlotFrom(table, IF i + 1 >= table.cap THEN 0 ELSE i + 1, n + 1)

add_to_lookup_table(table, objs, o) ==
    With(FreeSlotFrom(table, HashMod(hash_cstr(NameOf(objs, o)), table.cap - 1), 0),
         LAMBDA i : [table EXCEPT !.used = @ \cup {<<i, o>>}])

RECURSIVE TableOf(_, _, _, _)
TableOf(table, objs, items, i) ==
    IF i > Len(items) THEN table
    ELSE With(add_to_lookup_table(table, objs, items[i]),
              LAMBDA t : TableOf(t, objs, items, i + 1))

\* lisp_dict_add_item, with lisp_array_push and lisp_array_grow.
SymDictAddItem(dict, objs, o) ==
    With([dict EXCEPT !.items = Append(@, o),
                      !.cap = IF Len(dict.items) + 1 = @ THEN 2 * @ ELSE @],
         LAMBDA d :
             IF Len(d.items) + 1 > DICT_LOOKUP_COUNT
             THEN IF d.table.cap = 0 \/ d.table.cap < d.cap * 2
                  THEN [d EXCEPT !.table =
                            TableOf([cap |-> d.cap * 2, used |-> {}],
                                    objs, d.items, 1)]
                  ELSE [d EXCEPT !.table = add_to_lookup_table(@, objs, o)]
             ELSE d)

Sy ==
    [dicts |-> sy_dicts, objs |-> sy_objs, cur |-> sy_cur, got |-> sy_got,
     freed |-> sy_freed]

SyCommit(s) ==
    /\ sy_dicts' = s.dicts
    /\ sy_objs' = s.objs
    /\ sy_cur' = s.cur
    /\ sy_got' = s.got
    /\ sy_freed' = s.freed

Obtained(s, name, o, via, probes) ==
    [s EXCEPT !.got = @ \cup {[vm |-> s.cur, name |-> name, obj |-> o,
                               via |-> via, probes |-> probes]}]

\* The end of lisp_make_symbol: no table holds the name.
SymNew(s, name) ==
    With(Len(s.objs) + 1, LAMBDA o :
    With(Append(s.objs, [name |-> name, vm |-> s.cur]), LAMBDA objs :
         Obtained([s EXCEPT !.objs = objs,
                            !.dicts[s.cur] = SymDictAddItem(@, objs, o)],
                  name, o, "new", 0)))

SymInParent(s, name) ==
    With(lisp_dict_assoc_cstr(s.dicts["parent"], s.objs, name), LAMBDA r :
         IF r.p # 0 THEN Obtained(s, name, r.p, "parent", r.probes)
         ELSE SymNew(s, name))

lisp_make_symbol(s, name) ==
    With(find_sym(SymTab, 0, Len(SymTab), name), LAMBDA t :
         IF t # 0 THEN Obtained(s, name, -t, "static", 0)
         ELSE With(lisp_dict_assoc_cstr(s.dicts[s.cur], s.objs, name), LAMBDA r :
                   IF r.p # 0 THEN Obtained(s, name, r.p, "own", r.probes)
                   ELSE IF s.cur = "child" THEN SymInParent(s, name)
                   ELSE SymNew(s, name)))

\* load: the symbols of a file, read in their order.
RECURSIVE SymLoad(_, _, _)
SymLoad(s, names, i) ==
    IF i > Len(names) THEN s
    ELSE With(lisp_make_symbol(s, names[i]),
              LAMBDA r : SymLoad(r, names, i + 1))

\* lisp_dict_new(vm, INISYMLISTSIZE)
SymDictNew == [items |-> <<>>, cap |-> INISYMLISTSIZE, table |-> NoTable]

\* gc of the current VM, as far as symbols go: every pair of vm->symbols is
\* marked and its car with it, and the lookup table is flagged; symbols of
\* the pool that no pair holds are deleted.
SymGcOf(s) ==
    [s EXCEPT !.freed = @ \cup
        {o \in DOMAIN s.objs :
            /\ s.objs[o].vm = s.cur
            /\ \A i \in DOMAIN s.dicts[s.cur].items :
                   s.dicts[s.cur].items[i] # o}]

SymStart(s) ==
    /\ sy_dicts = s.dicts
    /\ sy_objs = s.objs
    /\ sy_cur = s.cur
    /\ sy_got = s.got
    /\ sy_freed = s.freed

SymFresh ==
    [dicts |-> [parent |-> SymDictNew, child |-> SymDictNew], objs |-> <<>>,
     cur |-> "parent", got |-> {}, freed |-> {}]

SymIdle ==
    /\ sy_dicts = <<>>
    /\ sy_objs = <<>>
    /\ sy_cur = "none"
    /\ sy_got = {}
    /\ sy_freed = {}
    /\ sy_steps = 0

\* The parent VM after lisp_vm_new, or after it has also loaded its file.
SymInit ==
    /\ \E s \in {SymFresh, SymLoad(SymFresh, FileNames("parent"), 1)} :
           SymStart(s)
    /\ sy_steps = 0

SymMore == sy_steps < MaxSymSteps

SymStep(next) ==
    /\ sy_steps' = sy_steps + 1
    /\ \E s \in {next} : SyCommit(s)
    /\ UNCHANGED notSym

MakeSymbol ==
    /\ SymMore
    /\ \E name \in SymNames : SymStep(lisp_make_symbol(Sy, name))

SymLoadFile ==
    /\ SymMore
    /\ SymStep(SymLoad(Sy, FileNames(sy_cur), 1))

\* op_spawn: a new VM whose parent is the current one runs from here on.
SymSpawn ==
    /\ SymMore
    /\ sy_cur = "parent"
    /\ SymStep([Sy EXCEPT !.cur = "child"])

SymGc ==
    /\ SymMore
    /\ SymStep(SymGcOf(Sy))

(***************************************************************************)
(* Ports and streams: close and finalization                               *)
(*                                                                         *)
(* One port with its stream and its io buffer.  The three are objects of   *)
(* the pool; gc deletes the unmarked ones in the order of the pool, and    *)
(* lisp_free keeps a deleted object on a free list, its fields after the   *)
(* first word as they were, so that a later delete_obj of the same sweep   *)
(* still reads them.                                                       *)
(***************************************************************************)
\* The bytes a run writes to the port, and the explicit closes it makes.
MaxPending == 3
MaxCloses == 3

\* The order of allocation: lisp_open_output_file and lisp_open_input_file
\* make the port, then the stream, then the buffer; lisp_make_port is given
\* a buffer and a stream and makes the port last.
PoolOrder(kind) ==
    IF kind = "file" THEN <<"port", "stream", "buffer">>
    ELSE <<"buffer", "stream", "port">>

\* struct lisp_stream_class_t: lisp_file_stream has a close callback,
\* lisp_tty_input_stream has none.
HasClose(cls) == cls = "file"

P ==
    [port |-> p_port, stream |-> p_stream, pool |-> p_pool,
     io |-> p_io, last |-> p_last, freed |-> p_freed]

PCommit(p) ==
    /\ p_port' = p.port
    /\ p_stream' = p.stream
    /\ p_pool' = p.pool
    /\ p_io' = p.io
    /\ p_last' = p.last
    /\ p_freed' = p.freed

\* A field of the object obj is read or written: noted when delete_obj has
\* already deleted the object.
Touch(p, obj) ==
    IF obj \in p.freed.gone THEN [p EXCEPT !.freed.used = @ \cup {obj}] ELSE p

\* delete_obj, last statement: lisp_free(vm, obj, size)
Deleted(p, obj) == [p EXCEPT !.freed.gone = @ \cup {obj}]

\* lisp_stream_close without the test of stream->context: the mutation of
\* lisp_stream_close.
lisp_stream_close_always(p) ==
    [p EXCEPT !.stream.context = FALSE,
              !.io.closes = IF HasClose(p.stream.cls) THEN @ + 1 ELSE @]

lisp_stream_close(p) ==
    With(Touch(p, "stream"), LAMBDA t :
        IF t.stream.context
        THEN [t EXCEPT !.stream.context = FALSE,
                       !.io.closes = IF HasClose(t.stream.cls) THEN @ + 1 ELSE @]
        ELSE t)

\* lisp_stream_write: the bytes the write callback takes, none when the
\* stream is closed.
lisp_stream_write(p, n) ==
    With(Touch(p, "stream"), LAMBDA t :
        IF t.stream.context THEN [t EXCEPT !.io.written = Append(@, n)] ELSE t)

lisp_port_flush(p) ==
    IF ~p.port.stream THEN p
    ELSE IF p.port.pending = 0 THEN Touch(p, "buffer")
    ELSE With(lisp_stream_write(Touch(p, "buffer"), p.port.pending), LAMBDA q :
              [q EXCEPT !.port.pending = 0])

lisp_port_close(p) ==
    IF p.port.closed THEN p
    ELSE With(IF p.port.out THEN lisp_port_flush(p) ELSE p, LAMBDA f :
         With(IF f.port.stream
              THEN [lisp_stream_close(f) EXCEPT !.port.stream = FALSE]
              ELSE f,
              LAMBDA c : [c EXCEPT !.port.closed = TRUE]))

\* delete_obj
delete_obj(p, obj) ==
    Deleted(IF obj = "port" THEN lisp_port_close(p)
            ELSE IF obj = "stream" THEN lisp_stream_close(p)
            ELSE p, obj)

\* The sweep of gc when no root reaches the port: every object of the pool
\* is deleted, in order.
RECURSIVE SweepFrom(_, _)
SweepFrom(p, i) ==
    IF i > Len(p.pool) THEN [p EXCEPT !.pool = <<>>]
    ELSE With(delete_obj(p, p.pool[i]), LAMBDA q : SweepFrom(q, i + 1))

\* What the operation did to the port, the stream and the callbacks.
Did(p0, p, op) ==
    [p EXCEPT !.last = [op |-> op, closed |-> p0.port.closed,
                        same |-> /\ p.port = p0.port
                                 /\ p.stream = p0.stream
                                 /\ p.io = p0.io,
                        flushed |-> Len(p.io.written) - Len(p0.io.written)]]

PortIdle ==
    /\ p_port = [closed |-> FALSE]
    /\ p_stream = [context |-> FALSE]
    /\ p_pool = <<>>
    /\ p_io = [closes |-> 0]
    /\ p_last = [op |-> "none"]
    /\ p_calls = 0
    /\ p_freed = [gone |-> {}, used |-> {}]

\* A port just opened on a stream: by lisp_open_output_file or
\* lisp_open_input_file, or by lisp_make_port.
PortInit ==
    /\ \E kind \in {"file", "made"}, isout \in BOOLEAN, cls \in {"file", "tty"} :
           /\ (cls = "tty" => ~isout)
           /\ p_port = [closed |-> FALSE, stream |-> TRUE, out |-> isout,
                        pending |-> 0]
           /\ p_stream = [context |-> TRUE, cls |-> cls]
           /\ p_pool = PoolOrder(kind)
    /\ p_io = [closes |-> 0, written |-> <<>>]
    /\ p_last = [op |-> "none", closed |-> FALSE, same |-> TRUE, flushed |-> 0]
    /\ p_calls = 0
    /\ p_freed = [gone |-> {}, used |-> {}]

PortStep(next) ==
    /\ \E p \in {next} : PCommit(p)
    /\ UNCHANGED notPort

\* lisp_port_puts of one byte that is not a newline, by write-string: the
\* byte is added to the io buffer, closed or not.
PortPuts ==
    /\ p_pool # <<>>
    /\ p_port.out
    /\ p_port.pending + Len(p_io.written) < MaxPending
    /\ PortStep(Did(P, [P EXCEPT !.port.pending = @ + 1], "write-string"))
    /\ UNCHANGED p_calls

\* case S_FLUSH
PortFlush ==
    /\ p_pool # <<>>
    /\ p_port.out
    /\ PortStep(Did(P, lisp_port_flush(P), "flush"))
    /\ UNCHANGED p_calls

\* case S_CLOSE
PortClose ==
    /\ p_pool # <<>>
    /\ p_calls < MaxCloses
    /\ p_calls' = p_calls + 1
    /\ PortStep(Did(P, lisp_port_close(P), "close"))

\* gc, after the program has dropped the port.
PortFinalize ==
    /\ p_pool # <<>>
    /\ PortStep(Did(P, SweepFrom(P, 1), "gc"))
    /\ UNCHANGED p_calls

(***************************************************************************)
(* The scheduler (src/src/twk.c)                                           *)
(*                                                                         *)
(* One process of the table, the worker threads (thread_main) and the      *)
(* threads that call twk_sched on it: the scheduler loop and a sender of   *)
(* messages.  proc->state is written without a lock by twk_sched, so its   *)
(* test and its assignment are two steps; a worker takes a process from    *)
(* the table under runnable_lock, in one step.                             *)
(***************************************************************************)
MaxMail == 2     \* messages the mailbox of the process can hold

Workers == {"worker1", "worker2"}
Callers == {"loop", "sender"}

\* twk_sched(proc, true), first statement: the test of proc->state.
TwkSchedTest(c) ==
    /\ sc_call[c] = "twk_sched"
    /\ sc_call' = [sc_call EXCEPT ![c] =
                      IF sc_state \in {"CREATED", "WAITING"} THEN "assign" ELSE "idle"]
    /\ UNCHANGED <<sc_state, sc_mbox, sc_thr>>

\* twk_sched(proc, true): proc->state = TWK_PS_RUNNABLE.
TwkSchedAssign(c) ==
    /\ sc_call[c] = "assign"
    /\ sc_state' = "RUNNABLE"
    /\ sc_call' = [sc_call EXCEPT ![c] = "idle"]
    /\ UNCHANGED <<sc_mbox, sc_thr>>

\* twk_post_message: the message is written to the mailbox under mbox_lock.
PostWrite ==
    /\ sc_call["sender"] = "idle"
    /\ sc_state \notin {"DONE", "SHUTDOWN", "NONE"}
    /\ sc_mbox < MaxMail
    /\ sc_mbox' = sc_mbox + 1
    /\ sc_call' = [sc_call EXCEPT !["sender"] = "posted"]
    /\ UNCHANGED <<sc_state, sc_thr>>

\* twk_post_message: if (ok && proc->state == TWK_PS_WAITING) twk_sched(...)
PostWake ==
    /\ sc_call["sender"] = "posted"
    /\ sc_call' = [sc_call EXCEPT !["sender"] =
                      IF sc_state = "WAITING" THEN "twk_sched" ELSE "idle"]
    /\ UNCHANGED <<sc_state, sc_mbox, sc_thr>>

\* sched_loop, one process of the scan of the table: a process that is shut
\* down is removed, a waiting process with mail is scheduled.
LoopScanProcess ==
    /\ sc_call["loop"] = "idle"
    /\ \/ /\ sc_state = "SHUTDOWN"
          /\ sc_state' = "NONE"
          /\ UNCHANGED sc_call
       \/ /\ sc_state = "WAITING"
          /\ sc_mbox > 0
          /\ sc_call' = [sc_call EXCEPT !["loop"] = "twk_sched"]
          /\ UNCHANGED sc_state
    /\ UNCHANGED <<sc_mbox, sc_thr>>

\* thread_main: find_runnable and proc->state = TWK_PS_RUNNING, under
\* runnable_lock.
find_runnable == sc_state = "RUNNABLE"
ThreadFetch(w) ==
    /\ sc_thr[w].pc = "fetch"
    /\ find_runnable
    /\ sc_state' = "RUNNING"
    /\ sc_thr' = [sc_thr EXCEPT ![w] = [pc |-> "run", ret |-> TRUE]]
    /\ UNCHANGED <<sc_mbox, sc_call>>

\* thread_main: lisp_try(proc->vm, run_vm, proc).  The process reads some of
\* its mail and returns, fails with an error, or exits (op_exit:
\* proc->state = TWK_PS_DONE).
ThreadRunVm(w) ==
    /\ sc_thr[w].pc = "run"
    /\ \E n \in 0 .. sc_mbox, how \in {"return", "error", "exit"} :
          /\ sc_mbox' = sc_mbox - n
          /\ sc_thr' = [sc_thr EXCEPT ![w] = [pc |-> "end", ret |-> how # "error"]]
          /\ sc_state' = IF how = "exit" THEN "DONE" ELSE sc_state
    /\ UNCHANGED sc_call

\* thread_main, after the run: the state the process is left in (it has no
\* children).
ThreadEnd(w) ==
    /\ sc_thr[w].pc = "end"
    /\ sc_state' = CASE ~sc_thr[w].ret -> "SHUTDOWN"
                     [] sc_thr[w].ret /\ sc_state = "DONE" -> "SHUTDOWN"
                     [] sc_thr[w].ret /\ sc_state = "RUNNING" -> "WAITING"
                     [] OTHER -> sc_state
    /\ sc_thr' = [sc_thr EXCEPT ![w] = [pc |-> "fetch", ret |-> TRUE]]
    /\ UNCHANGED <<sc_mbox, sc_call>>

\* No process table: the state of the scheduler while another part is
\* examined.
SchedIdle ==
    /\ sc_state = "NONE"
    /\ sc_mbox = 0
    /\ sc_thr = [w \in Workers |-> [pc |-> "fetch", ret |-> TRUE]]
    /\ sc_call = [c \in Callers |-> "idle"]

\* twk_start_threads: the workers are started, the process `init' is created and
\* twk_sched(proc, true) has made it runnable.
SchedInit ==
    /\ sc_state = "RUNNABLE"
    /\ sc_mbox = 0
    /\ sc_thr = [w \in Workers |-> [pc |-> "fetch", ret |-> TRUE]]
    /\ sc_call = [c \in Callers |-> "idle"]

\* The process is in the table.
SchedMore == sc_state # "NONE"

TwkSchedCheck ==
    /\ SchedMore
    /\ \E c \in Callers : TwkSchedTest(c)
    /\ UNCHANGED notSched
TwkSchedSet ==
    /\ SchedMore
    /\ \E c \in Callers : TwkSchedAssign(c)
    /\ UNCHANGED notSched
TwkPostMessage == SchedMore /\ PostWrite /\ UNCHANGED notSched
TwkPostMessageWake == SchedMore /\ PostWake /\ UNCHANGED notSched
TwkRunLoop == SchedMore /\ LoopScanProcess /\ UNCHANGED notSched
ThreadMainFetch ==
    /\ SchedMore
    /\ \E w \in Workers : ThreadFetch(w)
    /\ UNCHANGED notSched
ThreadMainRun ==
    /\ SchedMore
    /\ \E w \in Workers : ThreadRunVm(w)
    /\ UNCHANGED notSched
ThreadMainEnd ==
    /\ SchedMore
    /\ \E w \in Workers : ThreadEnd(w)
    /\ UNCHANGED notSched

(***************************************************************************)
(* The FIFO (src/src/fifo.h, src/src/fifo.c)                               *)
(*                                                                         *)
(* One thread calls fifo_write and another fifo_read, without a lock.     *)
(* A step is one access to the memory the two share: a read of the other   *)
(* side's position, a byte of memcpy, an assignment to the own position.   *)
(* The bytes written are 1, 2, 3, ... in the order fifo_write accepts      *)
(* them; the buffer holds 0 where nothing was written yet.                 *)
(***************************************************************************)
FifoBits == 2    \* the buffer has 2^FifoBits bytes (fifo_new: a power of 2)
MaxChunk == 3    \* bytes asked of one call of fifo_write or fifo_read
MaxBytes == 6    \* bytes accepted by the writes of a run

FifoSize == 2 ^ FifoBits

\* x & (f->size - 1) on unsigned values.
FifoMask(x) == x % FifoSize

\* A variant of fifo_room that counts the whole buffer as usable.
fifo_room_whole(wpos, rpos) == FifoSize - FifoMask(wpos - rpos)

fifo_bytes(wpos, rpos) == FifoMask(wpos - rpos)
fifo_room(wpos, rpos) == FifoSize - 1 - fifo_bytes(wpos, rpos)

\* memcpy between the caller's buffer and the FIFO: the index in f->buffer
\* of byte i (from 0) of a copy of n bytes that starts at pos.  The copy is
\* in one piece when f->size - pos >= n and in two otherwise.
CopyIndex(pos, n, i) ==
    IF FifoSize - pos >= n THEN pos + i
    ELSE IF i < FifoSize - pos THEN pos + i ELSE i - (FifoSize - pos)

\* The position after a copy of n bytes from pos: pos += n before the mask
\* is applied, or n - size1 when the copy was in two pieces.
Advanced(pos, n) ==
    IF FifoSize - pos >= n THEN pos + n ELSE n - (FifoSize - pos)

CallerIdle == [pc |-> "idle", n |-> 0, i |-> 0, data |-> <<>>]

\* ---- fifo_write ----
FifoWriteCall ==
    /\ f_w.pc = "idle"
    /\ \E n \in 1 .. MaxChunk :
          /\ Len(f_in) + n <= MaxBytes
          /\ f_w' = [CallerIdle EXCEPT !.pc = "room", !.n = n]
    /\ UNCHANGED <<f_fifo, f_r, f_in, f_out>>

\* avail = fifo_room(f); size = min(size, avail); the bytes accepted.
FifoWriteRoom ==
    /\ f_w.pc = "room"
    /\ LET avail == fifo_room(f_fifo.wpos, f_fifo.rpos)
           n == Min(f_w.n, avail)
       IN IF avail = 0
          THEN f_w' = CallerIdle /\ f_in' = f_in
          ELSE /\ f_w' = [f_w EXCEPT !.pc = "copy", !.n = n,
                                     !.data = [k \in 1 .. n |-> Len(f_in) + k]]
               /\ f_in' = f_in \o [k \in 1 .. n |-> Len(f_in) + k]
    /\ UNCHANGED <<f_fifo, f_r, f_out>>

\* memcpy(f->buffer + ..., buf, ...): one byte.
FifoWriteCopy ==
    /\ f_w.pc = "copy"
    /\ f_fifo' = [f_fifo EXCEPT
                    !.buffer[CopyIndex(f_fifo.wpos, f_w.n, f_w.i)] = f_w.data[f_w.i + 1]]
    /\ f_w' = [f_w EXCEPT !.i = @ + 1,
                          !.pc = IF f_w.i + 1 = f_w.n THEN "advance" ELSE "copy"]
    /\ UNCHANGED <<f_r, f_in, f_out>>

\* f->wpos += size, or f->wpos = size - size1.
FifoWriteAdvance ==
    /\ f_w.pc = "advance"
    /\ f_fifo' = [f_fifo EXCEPT !.wpos = Advanced(f_fifo.wpos, f_w.n)]
    /\ f_w' = IF FifoSize - f_fifo.wpos >= f_w.n
              THEN [f_w EXCEPT !.pc = "mask"] ELSE CallerIdle
    /\ UNCHANGED <<f_r, f_in, f_out>>

\* f->wpos &= f->size - 1
FifoWriteMask ==
    /\ f_w.pc = "mask"
    /\ f_fifo' = [f_fifo EXCEPT !.wpos = FifoMask(@)]
    /\ f_w' = CallerIdle
    /\ UNCHANGED <<f_r, f_in, f_out>>

\* ---- fifo_read ----
FifoReadCall ==
    /\ f_r.pc = "idle"
    /\ Len(f_out) < MaxBytes
    /\ \E n \in 1 .. MaxChunk : f_r' = [CallerIdle EXCEPT !.pc = "used", !.n = n]
    /\ UNCHANGED <<f_fifo, f_w, f_in, f_out>>

\* used = fifo_bytes(f); size = min(size, used)
FifoReadUsed ==
    /\ f_r.pc = "used"
    /\ LET used == fifo_bytes(f_fifo.wpos, f_fifo.rpos)
       IN f_r' = IF used = 0 THEN CallerIdle
                 ELSE [f_r EXCEPT !.pc = "copy", !.n = Min(f_r.n, used)]
    /\ UNCHANGED <<f_fifo, f_w, f_in, f_out>>

\* memcpy(buf, f->buffer + ..., ...): one byte.
FifoReadCopy ==
    /\ f_r.pc = "copy"
    /\ f_r' = [f_r EXCEPT
                 !.data = Append(@, f_fifo.buffer[CopyIndex(f_fifo.rpos, f_r.n, f_r.i)]),
                 !.i = @ + 1,
                 !.pc = IF f_r.i + 1 = f_r.n THEN "advance" ELSE "copy"]
    /\ UNCHANGED <<f_fifo, f_w, f_in, f_out>>

\* f->rpos += size, or f->rpos = size - size1: the bytes are the reader's.
FifoReadAdvance ==
    /\ f_r.pc = "advance"
    /\ f_fifo' = [f_fifo EXCEPT !.rpos = Advanced(f_fifo.rpos, f_r.n)]
    /\ f_out' = f_out \o f_r.data
    /\ f_r' = IF FifoSize - f_fifo.rpos >= f_r.n
              THEN [f_r EXCEPT !.pc = "mask"] ELSE CallerIdle
    /\ UNCHANGED <<f_w, f_in>>

\* f->rpos &= f->size - 1
FifoReadMask ==
    /\ f_r.pc = "mask"
    /\ f_fifo' = [f_fifo EXCEPT !.rpos = FifoMask(@)]
    /\ f_r' = CallerIdle
    /\ UNCHANGED <<f_w, f_in, f_out>>

\* No FIFO: the state while another part is examined.
FifoIdle ==
    /\ f_fifo = [wpos |-> 0, rpos |-> 0, buffer |-> <<>>]
    /\ f_w = CallerIdle
    /\ f_r = CallerIdle
    /\ f_in = <<>>
    /\ f_out = <<>>

\* fifo_new
fifo_new ==
    /\ f_fifo = [wpos |-> 0, rpos |-> 0, buffer |-> [k \in 0 .. FifoSize - 1 |-> 0]]
    /\ f_w = CallerIdle
    /\ f_r = CallerIdle
    /\ f_in = <<>>
    /\ f_out = <<>>

\* The FIFO exists.
FifoMore == f_fifo.buffer # <<>>

FifoWriteBegin == FifoMore /\ FifoWriteCall /\ UNCHANGED notFifo
FifoWriteAvail == FifoMore /\ FifoWriteRoom /\ UNCHANGED notFifo
FifoWriteByte == FifoMore /\ FifoWriteCopy /\ UNCHANGED notFifo
FifoWriteWpos == FifoMore /\ FifoWriteAdvance /\ UNCHANGED notFifo
FifoWriteWposMask == FifoMore /\ FifoWriteMask /\ UNCHANGED notFifo
FifoReadBegin == FifoMore /\ FifoReadCall /\ UNCHANGED notFifo
FifoReadAvail == FifoMore /\ FifoReadUsed /\ UNCHANGED notFifo
FifoReadByte == FifoMore /\ FifoReadCopy /\ UNCHANGED notFifo
FifoReadRpos == FifoMore /\ FifoReadAdvance /\ UNCHANGED notFifo
FifoReadRposMask == FifoMore /\ FifoReadMask /\ UNCHANGED notFifo

(***************************************************************************)
(* The mailbox of a process (src/src/twk.c)                                *)
(*                                                                         *)
(* Senders post with twk_post_message, or with twk_begin_message,          *)
(* twk_add_message and twk_end_message, under proc->mbox_lock; the         *)
(* process reads with mbox_read, which takes the lock only to enlarge the  *)
(* FIFO.  A call of fifo_write or fifo_read is one step here (its single   *)
(* accesses are the subject of SpecFifo).  A byte is <<m, k>>: byte k of   *)
(* message m; a cell never written holds <<0, 0>>.                         *)
(***************************************************************************)
MboxBits == 2       \* TWK_INI_MBOX_SIZE is 2^MboxBits here
MboxMaxBits == 3    \* TWK_MAX_MBOX_SIZE is 2^MboxMaxBits here
MaxPart == 3        \* bytes of one twk_post_message or twk_add_message
MaxParts == 2       \* calls of twk_add_message for one message
MaxMsgs == 2        \* messages begun in a run
MaxRead == 2        \* bytes asked of one mbox_read
MaxRecv == 5        \* bytes the process reads in a run

TWK_INI_MBOX_SIZE == 2 ^ MboxBits
TWK_MAX_MBOX_SIZE == 2 ^ MboxMaxBits
Senders == {1, 2}

NoByte == <<0, 0>>
MsgBytes(m, from, n) == [k \in 1 .. n |-> <<m, from + k>>]

MboxNew(size) ==
    [size |-> size, wpos |-> 0, rpos |-> 0, buffer |-> [k \in 0 .. size - 1 |-> NoByte]]

MboxBytes(f) == (f.wpos - f.rpos) % f.size
MboxRoom(f) == f.size - 1 - MboxBytes(f)

\* fifo_write as one step: [f, n], the FIFO afterwards and the bytes taken.
fifo_write(f, buf) ==
    LET n == Min(Len(buf), MboxRoom(f))
    IN [f |-> [f EXCEPT
                 !.buffer = [k \in 0 .. f.size - 1 |->
                               IF (k - f.wpos) % f.size < n
                               THEN buf[((k - f.wpos) % f.size) + 1]
                               ELSE f.buffer[k]],
                 !.wpos = (f.wpos + n) % f.size],
        n |-> n]

\* fifo_read as one step: [f, buf], the FIFO afterwards and the bytes read.
fifo_read(f, size) ==
    LET n == Min(size, MboxBytes(f))
    IN [f |-> [f EXCEPT !.rpos = (f.rpos + n) % f.size],
        buf |-> [k \in 1 .. n |-> f.buffer[(f.rpos + k - 1) % f.size]]]

\* twk_end_message, the message did not fit: rollback to last wposition.
EndRollback(f, last_wpos) == [f EXCEPT !.wpos = last_wpos]

\* twk_sched(proc, true) at the end of a post that succeeded.
MboxWake(state, ok) ==
    IF ok /\ state = "WAITING" THEN "RUNNABLE" ELSE state

SenderIdle == [pc |-> "idle", msg |-> 0, len |-> 0, parts |-> 0, ok |-> FALSE]

MsgOpen == mb_hist' = [mb_hist EXCEPT !.msgs = Append(@, [res |-> "open", len |-> 0])]
MsgDone(m, ok, len) ==
    mb_hist' = [mb_hist EXCEPT !.msgs[m] = [res |-> IF ok THEN "ok" ELSE "fail",
                                            len |-> len]]

\* twk_post_message up to pthread_mutex_unlock: the message whole, or not.
PostLocked(c) ==
    /\ mb_snd[c].pc = "idle"
    /\ Len(mb_hist.msgs) < MaxMsgs
    /\ mb_proc.state # "DONE"
    /\ mb_lock = 0
    /\ mb_lock' = c
    /\ \E size \in 1 .. MaxPart :
          LET m == Len(mb_hist.msgs) + 1
              ok == MboxRoom(mb_proc.mbox) >= size
          IN /\ mb_proc' = IF ok
                           THEN [mb_proc EXCEPT
                                   !.mbox = fifo_write(@, MsgBytes(m, 0, size)).f]
                           ELSE mb_proc
             /\ mb_snd' = [mb_snd EXCEPT
                             ![c] = [pc |-> "posted", msg |-> m, len |-> size,
                                     parts |-> 1, ok |-> ok]]
             /\ MsgOpen
    /\ UNCHANGED mb_rd

\* twk_post_message from pthread_mutex_unlock on.
PostUnlock(c) ==
    /\ mb_snd[c].pc = "posted"
    /\ mb_lock' = 0
    /\ mb_proc' = [mb_proc EXCEPT !.state = MboxWake(@, mb_snd[c].ok)]
    /\ MsgDone(mb_snd[c].msg, mb_snd[c].ok, mb_snd[c].len)
    /\ mb_snd' = [mb_snd EXCEPT ![c] = SenderIdle]
    /\ UNCHANGED mb_rd

\* twk_end_message
EndMessage(c) ==
    /\ mb_snd[c].pc = "adding"
    /\ mb_snd[c].parts > 0
    /\ LET ok == ~mb_proc.mbox_overflow
       IN /\ mb_proc' = [mb_proc EXCEPT
                           !.mbox = IF ok THEN @
                                    ELSE EndRollback(@, mb_proc.mbox_last_wpos),
                           !.state = MboxWake(@, ok)]
          /\ MsgDone(mb_snd[c].msg, ok, mb_snd[c].len)
    /\ mb_lock' = 0
    /\ mb_snd' = [mb_snd EXCEPT ![c] = SenderIdle]
    /\ UNCHANGED mb_rd

\* twk_begin_message: returns with the lock held.
BeginMessage(c) ==
    /\ mb_snd[c].pc = "idle"
    /\ Len(mb_hist.msgs) < MaxMsgs
    /\ mb_proc.state # "DONE"
    /\ mb_lock = 0
    /\ mb_lock' = c
    /\ mb_proc' = [mb_proc EXCEPT !.mbox_last_wpos = mb_proc.mbox.wpos,
                                  !.mbox_overflow = FALSE]
    /\ mb_snd' = [mb_snd EXCEPT
                    ![c] = [SenderIdle EXCEPT !.pc = "adding",
                                              !.msg = Len(mb_hist.msgs) + 1]]
    /\ MsgOpen
    /\ UNCHANGED mb_rd

\* twk_add_message
AddMessage(c) ==
    /\ mb_snd[c].pc = "adding"
    /\ mb_snd[c].parts < MaxParts
    /\ \E size \in 1 .. MaxPart :
          /\ mb_proc' =
               IF ~mb_proc.mbox_overflow /\ MboxRoom(mb_proc.mbox) >= size
               THEN [mb_proc EXCEPT
                       !.mbox = fifo_write(@, MsgBytes(mb_snd[c].msg,
                                                       mb_snd[c].len, size)).f]
               ELSE [mb_proc EXCEPT !.mbox_overflow = TRUE]
          /\ mb_snd' = [mb_snd EXCEPT ![c].parts = @ + 1, ![c].len = @ + size]
    /\ UNCHANGED <<mb_lock, mb_rd, mb_hist>>

\* mbox_read: the test that decides whether to enlarge the FIFO first.
MboxReadTest ==
    /\ mb_proc.state = "RUNNING"
    /\ mb_rd.pc = "idle"
    /\ Len(mb_hist.recv) < MaxRecv
    /\ \E size \in 1 .. MaxRead :
          mb_rd' = [pc |-> IF /\ MboxBytes(mb_proc.mbox) > mb_proc.mbox.size \div 2
                              /\ mb_proc.mbox.size < TWK_MAX_MBOX_SIZE
                           THEN "resize" ELSE "read",
                    size |-> size]
    /\ UNCHANGED <<mb_proc, mb_lock, mb_snd, mb_hist>>

\* mbox_read: under the lock, a FIFO of twice the size takes over the bytes.
MboxReadResize ==
    /\ mb_rd.pc = "resize"
    /\ mb_lock = 0
    /\ LET old == mb_proc.mbox
           fifo == MboxNew(old.size * 2)
           got == fifo_read(old, fifo.size).buf
       IN mb_proc' = [mb_proc EXCEPT
                        !.mbox = [fifo EXCEPT
                                    !.buffer = [k \in 0 .. fifo.size - 1 |->
                                                  IF k < Len(got) THEN got[k + 1]
                                                  ELSE NoByte],
                                    !.wpos = Len(got)]]
    /\ mb_rd' = [mb_rd EXCEPT !.pc = "read"]
    /\ UNCHANGED <<mb_lock, mb_snd, mb_hist>>

\* mbox_read: return fifo_read(proc->mbox, buf, size), without the lock.
MboxReadFifo ==
    /\ mb_rd.pc = "read"
    /\ LET r == fifo_read(mb_proc.mbox, mb_rd.size)
       IN /\ mb_proc' = [mb_proc EXCEPT !.mbox = r.f]
          /\ mb_hist' = [mb_hist EXCEPT !.recv = @ \o r.buf]
    /\ mb_rd' = [pc |-> "idle", size |-> 0]
    /\ UNCHANGED <<mb_lock, mb_snd>>

\* thread_main takes the process, and the activation ends.
MboxActivate ==
    /\ mb_proc.state = "RUNNABLE"
    /\ mb_proc' = [mb_proc EXCEPT !.state = "RUNNING"]
    /\ UNCHANGED <<mb_lock, mb_snd, mb_rd, mb_hist>>

MboxSuspend ==
    /\ mb_proc.state = "RUNNING"
    /\ mb_rd.pc = "idle"
    /\ mb_proc' = [mb_proc EXCEPT !.state = "WAITING"]
    /\ UNCHANGED <<mb_lock, mb_snd, mb_rd, mb_hist>>

\* The scheduler loop finds the process waiting with mail.
MboxLoopWake ==
    /\ mb_proc.state = "WAITING"
    /\ MboxBytes(mb_proc.mbox) > 0
    /\ mb_proc' = [mb_proc EXCEPT !.state = "RUNNABLE"]
    /\ UNCHANGED <<mb_lock, mb_snd, mb_rd, mb_hist>>

\* No process: the state while another part is examined.
MboxIdle ==
    /\ mb_proc = [state |-> "NONE"]
    /\ mb_lock = 0
    /\ mb_snd = <<>>
    /\ mb_rd = [pc |-> "idle", size |-> 0]
    /\ mb_hist = [msgs |-> <<>>, recv |-> <<>>]

\* process_init, and the process waits for its first message.
MboxInit ==
    /\ mb_proc = [state |-> "WAITING", mbox |-> MboxNew(TWK_INI_MBOX_SIZE),
                  mbox_last_wpos |-> 0, mbox_overflow |-> FALSE]
    /\ mb_lock = 0
    /\ mb_snd = [c \in Senders |-> SenderIdle]
    /\ mb_rd = [pc |-> "idle", size |-> 0]
    /\ mb_hist = [msgs |-> <<>>, recv |-> <<>>]

\* The process exists.
MboxMore == mb_proc.state # "NONE"

MboxPostMessage == MboxMore /\ (\E c \in Senders : PostLocked(c)) /\ UNCHANGED notMbox
MboxPostReturn == MboxMore /\ (\E c \in Senders : PostUnlock(c)) /\ UNCHANGED notMbox
MboxBeginMessage == MboxMore /\ (\E c \in Senders : BeginMessage(c)) /\ UNCHANGED notMbox
MboxAddMessage == MboxMore /\ (\E c \in Senders : AddMessage(c)) /\ UNCHANGED notMbox
MboxEndMessage == MboxMore /\ (\E c \in Senders : EndMessage(c)) /\ UNCHANGED notMbox
MboxRead == MboxMore /\ MboxReadTest /\ UNCHANGED notMbox
MboxReadGrow == MboxMore /\ MboxReadResize /\ UNCHANGED notMbox
MboxReadBytes == MboxMore /\ MboxReadFifo /\ UNCHANGED notMbox
MboxThreadRun == MboxMore /\ MboxActivate /\ UNCHANGED notMbox
MboxThreadEnd == MboxMore /\ MboxSuspend /\ UNCHANGED notMbox
MboxSchedLoop == MboxMore /\ MboxLoopWake /\ UNCHANGED notMbox

(***************************************************************************)
(* The reader and the printer (src/src/lisp.c)                             *)
(*                                                                         *)
(* A text is a sequence of characters, each a string of length one; the    *)
(* end of the input reads as "EOF".  The texts examined are ASCII, so the  *)
(* UTF-8 bookkeeping of append_utf8_byte never rejects a byte, and they    *)
(* have no \x escape, no #b buffer and no interpolated string.  A number   *)
(* is a double: infinite, or neg, m and e for (-1)^neg * m * 10^e with m   *)
(* free of trailing zeros; the texts have numbers of at most three         *)
(* significant digits and stay out of the subnormal range, so strtod and   *)
(* "%.15g" are exact on them.                                              *)
(***************************************************************************)
MAX_SYMBOL_LENGTH == 127
DBL_DIG == 15
DBL_MAX_10_EXP == 308

\* The character of the quasiquote.
BACKQUOTE == "BQ"

DIGITS == <<"0", "1", "2", "3", "4", "5", "6", "7", "8", "9">>
HEXDIGITS == DIGITS \o <<"a", "b", "c", "d", "e", "f">>
LOWER == {"a", "b", "c", "d", "e", "f", "g", "h", "i", "j", "k", "l", "m",
          "n", "o", "p", "q", "r", "s", "t", "u", "v", "w", "x", "y", "z"}
UPPER == {"A", "B", "C", "D", "E", "F", "G", "H", "I", "J", "K", "L", "M",
          "N", "O", "P", "Q", "R", "S", "T", "U", "V", "W", "X", "Y", "Z"}

isdigit(c) == \E i \in 1 .. 10 : DIGITS[i] = c
isxdigit(c) == isdigit(c) \/ c \in {"a", "b", "c", "d", "e", "f",
                                    "A", "B", "C", "D", "E", "F"}
isalnum(c) == isdigit(c) \/ c \in LOWER \/ c \in UPPER
isspace(c) == c \in {" ", "\t", "\n", "\r"}

isdelim(c) ==
    c \in {" ", "\t", "\n", "\r", "(", ")", "{", "}", "[", "]", ";", "EOF"}

issym(c) ==
    c \in {"+", "-", "*", "/", "?", "!", "<", "=", ">", "&", "_"} \/ isalnum(c)

isnum(c) ==
    isdigit(c) \/ c \in {"x", "X", ".", "+", "-", "a", "b", "c", "d", "e", "f",
                         "A", "B", "C", "D", "E", "F"}

DigitValue(c) == (CHOOSE i \in 1 .. 10 : DIGITS[i] = c) - 1

hex_digit(i) == HEXDIGITS[i + 1]

hex_value(c) ==
    IF isdigit(c) THEN DigitValue(c)
    ELSE IF c \in {"a", "A"} THEN 10
    ELSE IF c \in {"b", "B"} THEN 11
    ELSE IF c \in {"c", "C"} THEN 12
    ELSE IF c \in {"d", "D"} THEN 13
    ELSE IF c \in {"e", "E"} THEN 14
    ELSE 15

\* lisp_port_getc and what is left of the input after it.
Getc(in) == IF in = <<>> THEN "EOF" ELSE Head(in)
Rest(in) == IF in = <<>> THEN <<>> ELSE Tail(in)

\* ---- the values ----
Double(inf, neg, m, e) == [t |-> "num", inf |-> inf, neg |-> neg, m |-> m, e |-> e]
Buffer(bytes) == [t |-> "buffer", bytes |-> bytes]
Array(items) == [t |-> "array", items |-> items]
Dict(items) == [t |-> "dict", items |-> items]

S_QUOTE == <<"q", "u", "o", "t", "e">>
S_UNQUOTE == <<"u", "n", "q", "u", "o", "t", "e">>
S_QUASIQUOTE == <<"q", "u", "a", "s", "i", "q", "u", "o", "t", "e">>
S_UNQUOTE_SPLICING == S_UNQUOTE \o <<"-", "s", "p", "l", "i", "c", "i", "n", "g">>
S_LAMBDA == <<"l", "a", "m", "b", "d", "a">>
S_CONSQ == <<"c", "o", "n", "s", "q">>
S_GET == <<"g", "e", "t">>
S_UNDEF == <<"u", "n", "d", "e", "f", "i", "n", "e", "d">>
LISP_DOT == Sym(<<"*", "d", "o", "t", "*">>)

\* NIL has the type of a pair; its car is `undefined' and its cdr is NIL.
IsPair(o) == o.t \in {"pair", "nil"}
Car(o) == IF o.t = "nil" THEN Sym(S_UNDEF) ELSE o.car
Cdr(o) == IF o.t = "nil" THEN NIL ELSE o.cdr

\* ---- strtod and "%.*g" ----
RECURSIVE DigitsValue(_)
DigitsValue(ds) ==
    IF ds = <<>> THEN 0
    ELSE DigitsValue(SubSeq(ds, 1, Len(ds) - 1)) * 10 + DigitValue(ds[Len(ds)])

RECURSIVE DigitsOf(_)
DigitsOf(n) ==
    IF n < 10 THEN <<DIGITS[n + 1]>> ELSE Append(DigitsOf(n \div 10), DIGITS[(n % 10) + 1])

\* The longest run of digits at the head of a text.
RECURSIVE DigitRun(_)
DigitRun(s) ==
    IF s # <<>> /\ isdigit(Head(s)) THEN <<Head(s)>> \o DigitRun(Tail(s)) ELSE <<>>

RECURSIVE Normal(_, _)
Normal(m, e) ==
    IF m = 0 THEN [m |-> 0, e |-> 0]
    ELSE IF m % 10 = 0 THEN Normal(m \div 10, e + 1)
    ELSE [m |-> m, e |-> e]

\* The decimal exponent of the first digit of m * 10^e.
Magnitude(m, e) == Len(DigitsOf(m)) + e - 1

\* The first three digits of m, filled with zeros: DBL_MAX begins 1.797.
Lead3(m) ==
    LET n == Len(DigitsOf(m))
    IN IF n = 1 THEN m * 100 ELSE IF n = 2 THEN m * 10 ELSE DigitsValue(SubSeq(DigitsOf(m), 1, 3))

\* The double nearest to (-1)^neg * m * 10^e, v being m and e normalised.
RoundedNormal(neg, v) ==
    IF v.m = 0 THEN Double(FALSE, neg, 0, 0)
    ELSE IF \/ Magnitude(v.m, v.e) > DBL_MAX_10_EXP
            \/ (Magnitude(v.m, v.e) = DBL_MAX_10_EXP /\ Lead3(v.m) >= 180)
    THEN Double(TRUE, neg, 0, 0)
    ELSE IF Magnitude(v.m, v.e) < -(DBL_MAX_10_EXP + DBL_DIG + 1)
    THEN Double(FALSE, neg, 0, 0)
    ELSE Double(FALSE, neg, v.m, v.e)

Rounded(neg, m, e) == RoundedNormal(neg, Normal(m, e))

NoNumber == [ok |-> FALSE, d |-> Double(FALSE, FALSE, 0, 0)]
IsNumber(d) == [ok |-> TRUE, d |-> d]
Drop(s, n) == SubSeq(s, n + 1, Len(s))

\* strtod on a decimal text: [ok, d]; ok when the whole text is a number.
\* The exponent: its digits d3 are all of s.
StrtodExp(neg, ds, frac, eneg, d3, s) ==
    IF d3 = <<>> \/ Len(d3) # Len(s) THEN NoNumber
    ELSE IsNumber(Rounded(neg, DigitsValue(ds),
                          (IF eneg THEN -DigitsValue(d3) ELSE DigitsValue(d3)) - frac))

StrtodExpSign(neg, ds, frac, eneg, s) == StrtodExp(neg, ds, frac, eneg, DigitRun(s), s)

\* After the mantissa ds, of which frac digits follow the point.
StrtodMantissa(neg, ds, frac, s) ==
    IF ds = <<>> THEN NoNumber
    ELSE IF s = <<>> THEN IsNumber(Rounded(neg, DigitsValue(ds), -frac))
    ELSE IF Head(s) \notin {"e", "E"} THEN NoNumber
    ELSE IF Tail(s) # <<>> /\ Head(Tail(s)) \in {"+", "-"}
    THEN StrtodExpSign(neg, ds, frac, Head(Tail(s)) = "-", Tail(Tail(s)))
    ELSE StrtodExpSign(neg, ds, frac, FALSE, Tail(s))

StrtodFraction(neg, d1, d2, s) == StrtodMantissa(neg, d1 \o d2, Len(d2), Drop(s, Len(d2)))

StrtodPoint(neg, d1, s) ==
    IF s # <<>> /\ Head(s) = "." THEN StrtodFraction(neg, d1, DigitRun(Tail(s)), Tail(s))
    ELSE StrtodMantissa(neg, d1, 0, s)

StrtodInteger(neg, d1, s) == StrtodPoint(neg, d1, Drop(s, Len(d1)))

StrtodSigned(neg, s) ==
    IF s = <<"i", "n", "f">> THEN IsNumber(Double(TRUE, neg, 0, 0))
    ELSE StrtodInteger(neg, DigitRun(s), s)

strtod(s) ==
    IF s # <<>> /\ Head(s) \in {"+", "-"} THEN StrtodSigned(Head(s) = "-", Tail(s))
    ELSE StrtodSigned(FALSE, s)

str2dbl(s) == strtod(s)

Zeros(n) == [i \in 1 .. n |-> "0"]

\* snprintf(s, n, "%.*g", p, d) for a double of fewer than p digits: sign,
\* the digits ds of d.m and the decimal exponent x of the first of them.
FormatDigits(p, d, sign, ds, x) ==
    IF d.inf THEN sign \o <<"i", "n", "f">>
    ELSE IF d.m = 0 THEN sign \o <<"0">>
    ELSE IF x < -4 \/ x >= p
    THEN sign \o <<Head(ds)>>
         \o (IF Len(ds) > 1 THEN <<".">> \o Tail(ds) ELSE <<>>)
         \o (IF x < 0 THEN <<"e", "-">> \o (IF -x < 10 THEN <<"0">> ELSE <<>>) \o DigitsOf(-x)
             ELSE <<"e", "+">> \o (IF x < 10 THEN <<"0">> ELSE <<>>) \o DigitsOf(x))
    ELSE IF d.e >= 0 THEN sign \o ds \o Zeros(d.e)
    ELSE IF x >= 0
    THEN sign \o SubSeq(ds, 1, x + 1) \o <<".">> \o SubSeq(ds, x + 2, Len(ds))
    ELSE sign \o <<"0", ".">> \o Zeros(-x - 1) \o ds

FormatG(p, d) ==
    FormatDigits(p, d, IF d.neg THEN <<"-">> ELSE <<>>, DigitsOf(d.m), Magnitude(d.m, d.e))

\* dtoa: s is the number with DBL_DIG digits.
DtoaChecked(d, s) == IF strtod(s).d # d THEN FormatG(DBL_DIG + 2, d) ELSE s

dtoa(d) == DtoaChecked(d, FormatG(DBL_DIG, d))

\* ---- the tokenizer ----
Tok(type, buf, in) == [type |-> type, buf |-> buf, in |-> in, err |-> ""]
TokErr(msg, in) == [type |-> "T_INVALID", buf |-> <<>>, in |-> in, err |-> msg]

RECURSIVE symtok(_, _)
symtok(buf, in) ==
    LET c == Getc(in)
    IN IF Len(buf) > MAX_SYMBOL_LENGTH THEN TokErr("Invalid symbol: too long", in)
       ELSE IF issym(c) THEN symtok(Append(buf, c), Rest(in))
       ELSE IF c = ":" THEN Tok("T_COLON_COMPONENT", buf, Rest(in))
       ELSE IF isdelim(c) THEN Tok("T_SYMBOL", buf, in)
       ELSE TokErr("invalid symbol char", Rest(in))

RECURSIVE numtok(_, _)
numtok(buf, in) ==
    LET c == Getc(in)
    IN IF isnum(c) THEN numtok(Append(buf, c), Rest(in))
       ELSE IF isdelim(c) THEN Tok("T_NUMBER", buf, in)
       ELSE TokErr("invalid symbol char", Rest(in))

\* skip_trailing_spaces: [ok, in]; white space up to the end of the line.
RECURSIVE skip_trailing_spaces(_, _)
skip_trailing_spaces(c, in) ==
    IF isspace(c) /\ c # "\n" THEN skip_trailing_spaces(Getc(in), Rest(in))
    ELSE [ok |-> c = "\n", in |-> in]

RECURSIVE strtoken(_, _)

\* strtoken after a backslash and the character e; in follows e.
StrEscaped(buf, e, r) ==
    IF r.ok THEN strtoken(Append(buf, e), r.in)
    ELSE TokErr("invalid escaped char", r.in)

StrEscape(buf, e, in) ==
    IF e = "n" THEN strtoken(Append(buf, "\n"), in)
    ELSE IF e = "r" THEN strtoken(Append(buf, "\r"), in)
    ELSE IF e = "t" THEN strtoken(Append(buf, "\t"), in)
    ELSE IF e \in {"\"", "\\"} THEN strtoken(Append(buf, e), in)
    ELSE StrEscaped(buf, e, skip_trailing_spaces(e, in))

StrChar(buf, c, in) ==
    IF c = "\"" THEN Tok("T_STRING", buf, in)
    ELSE IF c = "EOF" THEN TokErr("invalid utf8 first byte", in)
    ELSE IF c # "\\" THEN strtoken(Append(buf, c), in)
    ELSE IF Getc(in) \in {"{", "(", "["} THEN Tok("T_STRING_PART", buf, in)
    ELSE StrEscape(buf, Getc(in), Rest(in))

strtoken(buf, in) == StrChar(buf, Getc(in), Rest(in))

RECURSIVE hextok(_, _, _, _)

HexContinued(buf, n, bits, r) ==
    IF r.ok THEN hextok(buf, n, bits, r.in)
    ELSE TokErr("invalid escaped char", r.in)

\* hextok at the character c; in is the input from c on.
HexChar(buf, n, bits, c, in) ==
    IF isxdigit(c)
    THEN IF n = 4 THEN hextok(Append(buf, bits + hex_value(c)), 8, 0, Rest(in))
         ELSE hextok(buf, 4, hex_value(c) * 16, Rest(in))
    ELSE IF c = "\\" THEN HexContinued(buf, n, bits, skip_trailing_spaces(" ", Rest(in)))
    ELSE IF isdelim(c)
    THEN IF n # 8 THEN TokErr("unexpected end of hex string", in)
         ELSE Tok("T_BUFFER", buf, in)
    ELSE TokErr("bad hex", Rest(in))

hextok(buf, n, bits, in) == HexChar(buf, n, bits, Getc(in), in)

\* The input from its first character that is not white space.
RECURSIVE SkipSpaces(_)
SkipSpaces(in) == IF isspace(Getc(in)) THEN SkipSpaces(Rest(in)) ELSE in

\* The input after the rest of a comment.
RECURSIVE SkipComment(_)
SkipComment(in) ==
    IF Getc(in) \in {"\n", "\r", "EOF"} THEN Rest(in) ELSE SkipComment(Rest(in))

RECURSIVE next_token(_)

\* next_token from the first character c that is no white space; r follows.
TokenFrom(c, r) ==
    CASE c = "(" -> Tok("T_LPAREN", <<>>, r)
      [] c = ")" -> Tok("T_RPAREN", <<>>, r)
      [] c = "[" -> Tok("T_LBRACKET", <<>>, r)
      [] c = "]" -> Tok("T_RBRACKET", <<>>, r)
      [] c = "{" -> Tok("T_LBRACE", <<>>, r)
      [] c = "}" -> Tok("T_RBRACE", <<>>, r)
      [] c = "^" -> Tok("T_CIRCUMFLEX", <<>>, r)
      [] c = "'" -> Tok("T_QUOTE", <<>>, r)
      [] c = BACKQUOTE -> Tok("T_QUASIQUOTE", <<>>, r)
      [] c = ":" -> Tok("T_COLON", <<>>, r)
      [] c = "EOF" -> Tok("T_EOF", <<>>, r)
      [] c = ";" -> next_token(SkipComment(r))
      [] c = "." -> IF isdelim(Getc(r)) THEN Tok("T_DOT", <<>>, r)
                    ELSE TokErr("do not begin number or symbol with .", Rest(r))
      [] c = "," -> IF Getc(r) = "@" THEN Tok("T_UNQUOTE_SPLICING", <<>>, Rest(r))
                    ELSE Tok("T_UNQUOTE", <<>>, r)
      [] c = "\"" -> strtoken(<<>>, r)
      [] c = "#" ->
           IF Getc(r) = "x" THEN hextok(<<>>, 8, 0, Rest(r))
           ELSE IF Getc(r) \in {"(", "[", "{"} THEN Tok("T_ARRAY_BEGIN", <<Getc(r)>>, Rest(r))
           ELSE IF Getc(r) = "#"
           THEN IF Getc(Rest(r)) \in {"(", "[", "{"}
                THEN Tok("T_DICT_BEGIN", <<Getc(Rest(r))>>, Rest(Rest(r)))
                ELSE TokErr("invalid dict", Rest(Rest(r)))
           ELSE TokErr("invalid char: #", Rest(r))
      [] OTHER ->
           IF isdigit(c) THEN numtok(<<c>>, r)
           ELSE IF c \in {"+", "-"} /\ (isdigit(Getc(r)) \/ Getc(r) = ".")
           THEN numtok(<<c>>, r)
           ELSE IF issym(c) THEN symtok(<<c>>, r)
           ELSE TokErr("Invalid character", r)

TokenAt(in) == TokenFrom(Getc(in), Rest(in))

next_token(in) == TokenAt(SkipSpaces(in))

\* ---- the parser ----
\* The outcome of sexp: ok and val, the input in after the expression, and
\* err when lisp_err was called; ok is FALSE with no err when the token
\* begins no expression.
Parsed(val, in) == [ok |-> TRUE, val |-> val, in |-> in, err |-> ""]
NoSexp(in) == [ok |-> FALSE, val |-> NIL, in |-> in, err |-> ""]
ParseErr(msg, in) == [ok |-> FALSE, val |-> NIL, in |-> in, err |-> msg]

\* What sexps leaves: the objects pushed and the token that ended them.
SexpsEnd(items, tok, why) == [items |-> items, tok |-> tok, err |-> why]

IsDot(o) == o.t = "sym" /\ o = LISP_DOT

\* mklist, on the objects pushed since the mark.
RECURSIVE MkListFrom(_, _, _)
MkListFrom(items, i, acc) ==
    IF i = 0 THEN acc
    ELSE IF IsDot(items[i]) THEN MkListFrom(items, i - 1, acc)
    ELSE MkListFrom(items, i - 1, Cons(items[i], acc))

mklist(items) ==
    IF Len(items) = 0 THEN NIL
    ELSE IF Len(items) > 1 /\ IsDot(items[Len(items) - 1])
    THEN MkListFrom(items, Len(items) - 1, items[Len(items)])
    ELSE MkListFrom(items, Len(items) - 1, Cons(items[Len(items)], NIL))

mkarray(items) == Array(items)

\* mkdict: every item a pair of a symbol and a value.
mkdict(items, in) ==
    IF \E i \in 1 .. Len(items) : ~IsPair(items[i]) \/ Car(items[i]).t # "sym"
    THEN ParseErr("bad dict: must be a symbol binding pair", in)
    ELSE Parsed(Dict(items), in)

\* expect_token for the bracket that closes what c or the token tt opened.
Closer(c) ==
    IF c \in {"(", "T_LPAREN"} THEN "T_RPAREN"
    ELSE IF c \in {"[", "T_LBRACKET"} THEN "T_RBRACKET"
    ELSE "T_RBRACE"

QuoteSymbol(tt) ==
    IF tt = "T_QUOTE" THEN S_QUOTE
    ELSE IF tt = "T_QUASIQUOTE" THEN S_QUASIQUOTE
    ELSE IF tt = "T_UNQUOTE" THEN S_UNQUOTE
    ELSE S_UNQUOTE_SPLICING

RECURSIVE sexp(_)
RECURSIVE SexpsMore(_, _)
RECURSIVE sexps_without_dots(_, _)
RECURSIVE ColonPath(_, _)

\* colon_path: (get a 'b 'c) from a:b:c.
ColonNext(items, t) ==
    IF t.err # "" THEN ParseErr(t.err, t.in)
    ELSE IF t.type = "T_SYMBOL"
    THEN Parsed(mklist(Append(items, Cons(Sym(S_QUOTE), Cons(Sym(t.buf), NIL)))), t.in)
    ELSE IF t.type = "T_COLON_COMPONENT"
    THEN ColonPath(Append(items, Cons(Sym(S_QUOTE), Cons(Sym(t.buf), NIL))), t.in)
    ELSE ParseErr("Expect symbol after colon", t.in)

ColonPath(items, in) == ColonNext(items, next_token(in))

\* sexps: the first expression, then the others.
SexpsFirst(t, r) ==
    IF r.err # "" THEN SexpsEnd(<<>>, t, r.err)
    ELSE IF ~r.ok THEN SexpsEnd(<<>>, t, "")
    ELSE SexpsMore(<<r.val>>, r.in)

SexpsToken(t) == SexpsFirst(t, sexp(t))

sexps(in) == SexpsToken(next_token(in))

\* The expression after a dot.
SexpsDotted(items, t, r) ==
    IF r.err # "" THEN SexpsEnd(items, t, r.err)
    ELSE IF ~r.ok THEN SexpsEnd(items, t, "invalid sexps")
    ELSE SexpsMore(items \o <<LISP_DOT, r.val>>, r.in)

SexpsDot(items, t) == SexpsDotted(items, t, sexp(t))

SexpsItem(items, t, r) ==
    IF r.err # "" THEN SexpsEnd(items, t, r.err)
    ELSE IF ~r.ok THEN SexpsEnd(items, t, "")
    ELSE SexpsMore(Append(items, r.val), r.in)

SexpsNext(items, t) ==
    IF t.err = "" /\ t.type = "T_DOT" THEN SexpsDot(items, next_token(t.in))
    ELSE SexpsItem(items, t, sexp(t))

SexpsMore(items, in) == SexpsNext(items, next_token(in))

NoDotsItem(items, t, r) ==
    IF r.err # "" THEN SexpsEnd(items, t, r.err)
    ELSE IF ~r.ok THEN SexpsEnd(items, t, "")
    ELSE sexps_without_dots(Append(items, r.val), r.in)

NoDotsNext(items, t) ==
    IF t.err = "" /\ t.type = "T_DOT" THEN SexpsEnd(items, t, "DOTS not allowed")
    ELSE NoDotsItem(items, t, sexp(t))

sexps_without_dots(items, in) == NoDotsNext(items, next_token(in))

\* sexp, a list: expect_token, mklist.
ListOf(tt, l) ==
    IF l.err # "" THEN ParseErr(l.err, l.tok.in)
    ELSE IF l.tok.type # Closer(tt) THEN ParseErr("expect token", l.tok.in)
    ELSE Parsed(mklist(l.items), l.tok.in)

\* sexp, an array or a dictionary: expect_token, mkarray or mkdict.
ArrayOf(tok, l) ==
    IF l.err # "" THEN ParseErr(l.err, l.tok.in)
    ELSE IF l.tok.type # Closer(tok.buf[1]) THEN ParseErr("expect token", l.tok.in)
    ELSE IF tok.type = "T_ARRAY_BEGIN" THEN Parsed(mkarray(l.items), l.tok.in)
    ELSE mkdict(l.items, l.tok.in)

NumberOf(n, in) == IF n.ok THEN Parsed(n.d, in) ELSE ParseErr("invalid number", in)

\* quoted: (q x) from the expression x after the token.
QuotedOf(q, r) ==
    IF r.err # "" THEN r
    ELSE IF ~r.ok THEN ParseErr("expect valid sexp", r.in)
    ELSE Parsed(Cons(Sym(q), Cons(r.val, NIL)), r.in)

quoted(q, tok) == QuotedOf(q, sexp(next_token(tok.in)))

\* lambda_expr: (lambda . x)
LambdaOf(r) ==
    IF r.err # "" THEN r
    ELSE IF ~r.ok THEN ParseErr("expect valid sexp for lambda", r.in)
    ELSE Parsed(Cons(Sym(S_LAMBDA), r.val), r.in)

\* consq: (consq a b)
ConsqOf(a, b) ==
    IF b.err # "" THEN b
    ELSE IF ~b.ok THEN ParseErr("Missing argument for :", b.in)
    ELSE Parsed(Cons(Sym(S_CONSQ), Cons(a.val, Cons(b.val, NIL))), b.in)

ConsqFirst(a) ==
    IF a.err # "" THEN a
    ELSE IF ~a.ok THEN ParseErr("Missing argument for :", a.in)
    ELSE ConsqOf(a, sexp(next_token(a.in)))

sexp(tok) ==
    CASE tok.err # "" -> ParseErr(tok.err, tok.in)
      [] tok.type \in {"T_LPAREN", "T_LBRACKET", "T_LBRACE"} ->
           ListOf(tok.type, sexps(tok.in))
      [] tok.type \in {"T_ARRAY_BEGIN", "T_DICT_BEGIN"} ->
           ArrayOf(tok, sexps_without_dots(<<>>, tok.in))
      [] tok.type = "T_BUFFER" -> Parsed(Buffer(tok.buf), tok.in)
      [] tok.type = "T_SYMBOL" -> Parsed(Sym(tok.buf), tok.in)
      [] tok.type = "T_COLON_COMPONENT" ->
           ColonPath(<<Sym(S_GET), Sym(tok.buf)>>, tok.in)
      [] tok.type = "T_STRING" -> Parsed(Str(tok.buf), tok.in)
      [] tok.type = "T_NUMBER" -> NumberOf(str2dbl(tok.buf), tok.in)
      [] tok.type = "T_CIRCUMFLEX" -> LambdaOf(sexp(next_token(tok.in)))
      [] tok.type \in {"T_QUOTE", "T_QUASIQUOTE", "T_UNQUOTE", "T_UNQUOTE_SPLICING"} ->
           quoted(QuoteSymbol(tok.type), tok)
      [] tok.type = "T_COLON" -> ConsqFirst(sexp(next_token(tok.in)))
      [] tok.type = "T_STRING_PART" -> ParseErr("interpolated string", tok.in)
      [] OTHER -> NoSexp(tok.in)

\* lisp_read: the object, *eof* at the end of the input, or the error.
ReadEnd(r) ==
    IF r.err # "" \/ r.ok THEN r ELSE ParseErr("unexpected token", r.in)

ReadToken(t) ==
    IF t.err = "" /\ t.type = "T_EOF"
    THEN Parsed(Sym(<<"*", "e", "o", "f", "*">>), t.in)
    ELSE ReadEnd(sexp(t))

lisp_read(in) == ReadToken(next_token(in))

\* ---- the printer ----
PrintChar(c) ==
    IF c = "\"" THEN <<"\\", "\"">>
    ELSE IF c = "\\" THEN <<"\\", "\\">>
    ELSE IF c = "\n" THEN <<"\\", "n">>
    ELSE IF c = "\r" THEN <<"\\", "r">>
    ELSE IF c = "\t" THEN <<"\\", "t">>
    ELSE <<c>>

print_string(s) == <<"\"">> \o Concat([i \in 1 .. Len(s.s) |-> PrintChar(s.s[i])]) \o <<"\"">>

\* print_symbol on a port that is no terminal.
print_symbol(s) == s.s

print_buffer(b) ==
    <<"#", "x">> \o Concat([i \in 1 .. Len(b.bytes) |->
                              <<hex_digit(b.bytes[i] \div 16), hex_digit(b.bytes[i] % 16)>>])

QuotePrefix(name) ==
    IF name = S_QUOTE THEN <<"'">>
    ELSE IF name = S_UNQUOTE THEN <<",">>
    ELSE IF name = S_QUASIQUOTE THEN <<BACKQUOTE>>
    ELSE IF name = S_UNQUOTE_SPLICING THEN <<",", "@">>
    ELSE <<>>

RECURSIVE lisp_port_print(_)
RECURSIVE PrintRest(_)
RECURSIVE PrintItems(_, _)

\* print_pair: the loop that writes the elements of the list p.
PrintRest(p) ==
    IF p.t = "nil" THEN <<>>
    ELSE lisp_port_print(p.car)
         \o (IF ~IsPair(p.cdr) THEN <<" ", ".", " ">> \o lisp_port_print(p.cdr)
             ELSE IF p.cdr.t # "nil" THEN <<" ">> \o PrintRest(p.cdr)
             ELSE <<>>)

print_pair(p) ==
    IF /\ Car(p).t = "sym"
       /\ IsPair(Cdr(p))
       /\ Cdr(Cdr(p)).t = "nil"
       /\ QuotePrefix(Car(p).s) # <<>>
    THEN QuotePrefix(Car(p).s) \o lisp_port_print(Car(Cdr(p)))
    ELSE <<"(">> \o PrintRest(p) \o <<")">>

\* The items of an array or a dictionary from item i on, a space between.
PrintItems(items, i) ==
    IF i > Len(items) THEN <<>>
    ELSE (IF i > 1 THEN <<" ">> ELSE <<>>) \o lisp_port_print(items[i])
         \o PrintItems(items, i + 1)

print_array(a) == <<"#", "(">> \o PrintItems(a.items, 1) \o <<")">>
print_dict(a) == <<"#", "#", "[">> \o PrintItems(a.items, 1) \o <<"]">>

lisp_port_print(obj) ==
    CASE obj.t = "str" -> print_string(obj)
      [] obj.t = "sym" -> print_symbol(obj)
      [] IsPair(obj) -> print_pair(obj)
      [] obj.t = "array" -> print_array(obj)
      [] obj.t = "dict" -> print_dict(obj)
      [] obj.t = "buffer" -> print_buffer(obj)
      [] obj.t = "num" -> dtoa(obj)

\* ---- the texts read ----
NumberTexts ==
    {<<"0">>, <<"7">>, <<"-", "7">>, <<"1", ".", "5">>, <<"1", "5", "0">>,
     <<"0", ".", "0", "2", "5">>, <<"2", "e", "-", "7">>, <<"1", "e", "2", "0">>,
     <<"1", "e", "3", "0", "8">>, <<"2", "e", "3", "0", "8">>,
     <<"1", "e", "9", "9", "9">>, <<"-", "1", "e", "9", "9", "9">>}

SymbolTexts == {<<"a">>, <<"b", "2">>, <<"-">>, <<"i", "n", "f">>, S_QUOTE}

StringTexts ==
    {<<"\"", "\"">>, <<"\"", "a", "\"">>, <<"\"", "a", " ", "b", "\"">>,
     <<"\"", "a", "\\", "n", "b", "\"">>, <<"\"", "\\", "\"", "\"">>,
     <<"\"", "\\", "\\", "\"">>}

BufferTexts == {<<"#", "x">>, <<"#", "x", "0", "a">>, <<"#", "x", "F", "F", "1", "0">>}

AtomTexts == NumberTexts \cup SymbolTexts \cup StringTexts \cup BufferTexts

\* Texts the reader rejects.
BadTexts == {<<"1", "g">>, <<"1", "e">>, <<"(", "a">>, <<")">>, <<"\"", "a">>,
             <<"#", "x", "0">>, <<"(", ".", " ", "a", ")">>, <<"#", "(", "a", " ", ".", " ", "b", ")">>}

SourceTexts ==
    AtomTexts \cup BadTexts
    \cup {<<"(", ")">>, <<"(", "q", "u", "o", "t", "e", ")">>, <<"#", "(", ")">>,
          <<"a", ":", "b", ":", "c">>, <<";", "x", "\n", "7">>}
    \cup {<<"(">> \o a \o <<")">> : a \in AtomTexts}
    \cup {<<"'">> \o a : a \in AtomTexts}
    \cup {<<BACKQUOTE>> \o a : a \in AtomTexts}
    \cup {<<",">> \o a : a \in AtomTexts}
    \cup {<<",", "@">> \o a : a \in AtomTexts}
    \cup {<<"^">> \o a : a \in AtomTexts}
    \cup {<<"[">> \o a \o <<"]">> : a \in AtomTexts}
    \cup {<<"#", "#", "{", "(", "k", " ", ".", " ">> \o a \o <<")", "}">> : a \in AtomTexts}
    \cup UNION {{<<"(">> \o a \o <<" ">> \o b \o <<")">> : b \in AtomTexts} : a \in AtomTexts}
    \cup UNION {{<<"(">> \o a \o <<" ", ".", " ">> \o b \o <<")">> : b \in AtomTexts}
                  : a \in AtomTexts}
    \cup UNION {{<<"#", "(">> \o a \o <<" ">> \o b \o <<")">> : b \in AtomTexts}
                  : a \in AtomTexts}
    \cup UNION {{<<"(", "(">> \o a \o <<")", " ", "'">> \o b \o <<")">> : b \in AtomTexts}
                  : a \in AtomTexts}
    \cup UNION {{<<":">> \o a \o <<" ">> \o b : b \in SymbolTexts} : a \in AtomTexts}

NotRead == [ok |-> FALSE, val |-> NIL, in |-> <<>>, err |-> ""]

\* lisp_read on the text.
ReadFirst ==
    /\ rp_pc = "text"
    /\ rp_val' = lisp_read(rp_src)
    /\ rp_pc' = IF rp_val'.ok THEN "read" ELSE "rejected"
    /\ UNCHANGED <<rp_src, rp_out, rp_back>>

\* lisp_port_print of the object read, into a buffer.
PrintObject ==
    /\ rp_pc = "read"
    /\ rp_out' = lisp_port_print(rp_val.val)
    /\ rp_pc' = "printed"
    /\ UNCHANGED <<rp_src, rp_val, rp_back>>

\* lisp_read on what was printed.
ReadAgain ==
    /\ rp_pc = "printed"
    /\ rp_back' = lisp_read(rp_out)
    /\ rp_pc' = "done"
    /\ UNCHANGED <<rp_src, rp_val, rp_out>>

\* Nothing to read: the state while another part is examined.
ReadIdle ==
    /\ rp_pc = "none"
    /\ rp_src = <<>>
    /\ rp_val = NotRead
    /\ rp_out = <<>>
    /\ rp_back = NotRead

\* An input port on one of the texts.
ReadInit ==
    /\ rp_pc = "text"
    /\ rp_src \in SourceTexts
    /\ rp_val = NotRead
    /\ rp_out = <<>>
    /\ rp_back = NotRead

ReadMore == rp_pc # "none"

LispRead == ReadMore /\ ReadFirst /\ UNCHANGED notRead
LispPortPrint == ReadMore /\ PrintObject /\ UNCHANGED notRead
LispReadBack == ReadMore /\ ReadAgain /\ UNCHANGED notRead

(***************************************************************************)
(* Dictionaries: lisp_dict_assoc, lisp_dict_add_item and the primitives    *)
(* dict, dict-set!, dict-unset!, dict-get, exists?, get and clear          *)
(*                                                                         *)
(* A key is a symbol, the index of its name in DictKeys: two keys are the  *)
(* same pointer when they are the same index.  A pair is its index in      *)
(* d_pairs, 0 for NULL.  A dictionary is the record of the symbol          *)
(* dictionaries: its items after items[0], its cap and its lookup table.   *)
(***************************************************************************)
MaxDictSteps == 3
MaxDictArgs == 17

\* The names of the keys: "a" .. "p"; "at", whose hash meets that of "a" in
\* a table of 32; "ax", whose hash meets that of "a" in a table of 64; and
\* "bq", whose hash meets "a" in a table of 32 and "j" in a table of 64.
DictKeys ==
    <<<<97>>, <<98>>, <<99>>, <<100>>, <<101>>, <<102>>, <<103>>, <<104>>,
      <<105>>, <<106>>, <<107>>, <<108>>, <<109>>, <<110>>, <<111>>, <<112>>,
      <<97, 116>>, <<97, 120>>, <<98, 113>>>>

KeyOf(name) == CHOOSE key \in DOMAIN DictKeys : DictKeys[key] = name

K_a == KeyOf(<<97>>)
K_at == KeyOf(<<97, 116>>)
K_ax == KeyOf(<<97, 120>>)
K_bq == KeyOf(<<98, 113>>)

\* The keys the primitives are applied to, and the values they store.
OpKeys == {K_a, K_at, K_ax, K_bq}
DictVals == {"v1", "v2"}

\* The argument lists of `dict': the first n pairs of a list of distinct
\* keys and of a list where keys come back, each taken round and round.
DistinctArgs ==
    <<K_a, 2, 3, K_at, 4, 5, K_ax, 6, 7, 8, 9, 10, 11, 12, 13, 14, 15>>
RepeatedArgs ==
    <<K_a, K_at, K_a, 2, K_ax, K_at, 3, K_a, 4, 5, K_ax, 6, 7, 2, 8, 9, K_at>>
DictArgs ==
    {[i \in 1 .. n |-> l[((i - 1) % Len(l)) + 1]] :
        l \in {DistinctArgs, RepeatedArgs}, n \in 0 .. MaxDictArgs}

\* The view of the pairs that the hash functions take: the name of the car.
PairNames(pairs) == [p \in DOMAIN pairs |-> [name |-> DictKeys[pairs[p].car]]]

\* lookup without its walk over the following slots: the mutation of lookup.
lookup_first_slot(table, pairs, key) ==
    With(SlotAt(table, HashMod(hash_cstr(DictKeys[key]), table.cap - 1)),
         LAMBDA p : IF p # 0 /\ pairs[p].car = key THEN p ELSE 0)

RECURSIVE LookupLoop(_, _, _, _, _)
LookupLoop(table, pairs, key, i, n) ==
    IF n >= table.cap THEN 0
    ELSE With(SlotAt(table, i), LAMBDA p :
              IF p = 0 THEN 0
              ELSE IF pairs[p].car = key THEN p
              ELSE LookupLoop(table, pairs, key,
                              IF i + 1 >= table.cap THEN 0 ELSE i + 1, n + 1))

\* lookup: p->car == name compares pointers.
lookup(table, pairs, key) ==
    LookupLoop(table, pairs, key,
               HashMod(hash_cstr(DictKeys[key]), table.cap - 1), 0)

\* The loop of lisp_dict_assoc over items[1 .. count-1].
RECURSIVE AssocLoop(_, _, _, _)
AssocLoop(items, pairs, key, i) ==
    IF i > Len(items) THEN 0
    ELSE IF pairs[items[i]].car = key THEN items[i]
    ELSE AssocLoop(items, pairs, key, i + 1)

\* lisp_dict_assoc: dict->count is Len(items) + 1.
lisp_dict_assoc(dict, pairs, key) ==
    IF Len(dict.items) + 1 > DICT_LOOKUP_COUNT
    THEN lookup(dict.table, pairs, key)
    ELSE AssocLoop(dict.items, pairs, key, 1)

\* lisp_dict_new(vm, n): lisp_array_new gives a cap of at least 4.
DictNew(n) == [items |-> <<>>, cap |-> IF n > 4 THEN n ELSE 4, table |-> NoTable]

\* lisp_dict_add: a new pair, then lisp_dict_add_item.
DictAdd(s, key, val) ==
    With(Append(s.pairs, [car |-> key, cdr |-> val]), LAMBDA pairs :
         [pairs |-> pairs,
          dict |-> SymDictAddItem(s.dict, PairNames(pairs), Len(pairs))])

\* lisp_dict_remove
lisp_dict_remove(s, key) ==
    With(lisp_dict_assoc(s.dict, s.pairs, key), LAMBDA p :
         IF p # 0 THEN [s EXCEPT !.pairs[p].cdr = "undefined"] ELSE s)

\* lisp_dict_clear
DictClearOf(s) == [s EXCEPT !.dict.items = <<>>, !.dict.table = NoTable]

\* S_DICT of apply_primitive: the pairs of the arguments are added one by
\* one, whatever the dictionary holds already.
RECURSIVE PrimDictLoop(_, _, _)
PrimDictLoop(s, args, i) ==
    IF i > Len(args) THEN s
    ELSE With(DictAdd(s, args[i], "v1"), LAMBDA r : PrimDictLoop(r, args, i + 1))

PrimDict(args) == PrimDictLoop([pairs |-> <<>>, dict |-> DictNew(8)], args, 1)

\* S_DICT_SET
PrimDictSet(s, key, val) ==
    With(lisp_dict_assoc(s.dict, s.pairs, key), LAMBDA p :
         IF p # 0 THEN [s EXCEPT !.pairs[p].cdr = val]
         ELSE DictAdd(s, key, val))

\* S_DICT_GET: the object pushed.
PrimDictGet(s, key) ==
    With(lisp_dict_assoc(s.dict, s.pairs, key), LAMBDA p :
         IF p # 0 THEN s.pairs[p].cdr ELSE "undefined")

\* op_exists on a dictionary.
PrimExists(s, key) == lisp_dict_assoc(s.dict, s.pairs, key) # 0

\* S_GET on a dictionary, with one key.
PrimGet(s, key) ==
    With(lisp_dict_assoc(s.dict, s.pairs, key), LAMBDA p :
         IF p # 0 THEN [ok |-> TRUE, val |-> s.pairs[p].cdr]
         ELSE [ok |-> FALSE, val |-> "Bad key"])

\* S_DICT_TO_LIST: the pairs of the dictionary in the order of its items.
PrimDictToList(s) == [i \in DOMAIN s.dict.items |-> s.pairs[s.dict.items[i]]]

D == [pairs |-> d_pairs, dict |-> d_dict]

NoDictOp == [op |-> "none", key |-> 0, res |-> 0, before |-> <<>>]

DictIdle ==
    /\ d_pairs = <<>>
    /\ d_dict = NoTable
    /\ d_gone = {}
    /\ d_last = NoDictOp
    /\ d_steps = 0

\* (dict): an empty dictionary.
DictInit ==
    /\ d_pairs = <<>>
    /\ d_dict = DictNew(8)
    /\ d_gone = {}
    /\ d_last = NoDictOp
    /\ d_steps = 0

DictMore == d_steps < MaxDictSteps

\* The step of a primitive that leaves the dictionary s, with the keys
\* removed and not added again since (gone) and what there is to tell of
\* the call.
DictStep(s, gone, op, key, res) ==
    /\ d_pairs' = s.pairs
    /\ d_dict' = s.dict
    /\ d_gone' = gone
    /\ d_last' = [op |-> op, key |-> key, res |-> res,
                  before |-> PrimDictToList(D)]
    /\ d_steps' = d_steps + 1
    /\ UNCHANGED notDict

ApplyDict ==
    /\ DictMore
    /\ \E args \in DictArgs : DictStep(PrimDict(args), {}, "dict", 0, 0)

ApplyDictSet ==
    /\ DictMore
    /\ \E key \in OpKeys, val \in DictVals :
           DictStep(PrimDictSet(D, key, val), d_gone \ {key}, "dict-set!", key, val)

ApplyDictUnset ==
    /\ DictMore
    /\ \E key \in OpKeys :
           DictStep(lisp_dict_remove(D, key),
                    IF lisp_dict_assoc(d_dict, d_pairs, key) # 0
                    THEN d_gone \cup {key} ELSE d_gone,
                    "dict-unset!", key, 0)

ApplyDictGet ==
    /\ DictMore
    /\ \E key \in OpKeys : DictStep(D, d_gone, "dict-get", key, PrimDictGet(D, key))

ApplyExists ==
    /\ DictMore
    /\ \E key \in OpKeys : DictStep(D, d_gone, "exists?", key, PrimExists(D, key))

ApplyGet ==
    /\ DictMore
    /\ \E key \in OpKeys : DictStep(D, d_gone, "get", key, PrimGet(D, key))

ApplyClear ==
    /\ DictMore
    /\ DictStep(DictClearOf(D), {}, "clear", 0, 0)

(***************************************************************************)
(* define, defconst and set! on a chain of environments                    *)
(*                                                                         *)
(* The running VM is the child of another VM: its root environment has the *)
(* parent's root environment as its parent (op_spawn).  The forms are      *)
(* taken at the point where their value has been evaluated; the frames of  *)
(* procedure calls and of let are entered and left around them.            *)
(***************************************************************************)
MaxEnvSteps == 4

EnvNames == {"x", "y", "z"}
EnvVals == {Num(1), Num(2)}

\* vm of the objects of the running VM, and of those of its parent.
ThisVm == NewEnv(0, 1).vm
ParentVm == ThisVm + 1

ParentRoot ==
    [NewEnv(0, ParentVm) EXCEPT !.bindings = <<Binding("y", Num(0))>>]
ChildRoot ==
    [NewEnv(1, ThisVm) EXCEPT !.bindings = <<Binding("x", Num(0))>>]

\* The VM inside a primitive: the trap of the evaluation around it is set.
EnvS ==
    [S EXCEPT !.envs = en_envs, !.env = en_env, !.status = "running",
              !.catch = 1,
              !.frames = <<[fn |-> "lisp_eval_core", pc |-> "call", jmp |-> 0]>>]

\* op_defconst: the pair op_define returns is flagged is_const.
DefConst(s, name, value) ==
    With(lisp_defvar(s, name, value), LAMBDA r :
         IF r.jumped THEN r
         ELSE [r EXCEPT !.envs[r.env].bindings[
                            DictAssoc(r.envs[r.env].bindings, name.s)].is_const
                        = TRUE])

NoEnvOp ==
    [op |-> "none", name |-> "", val |-> NIL, ok |-> TRUE, msg |-> "",
     envs |-> <<>>, env |-> 0]

EnvIdle ==
    /\ en_envs = <<>>
    /\ en_env = 0
    /\ en_last = NoEnvOp
    /\ en_steps = 0

EnvInit ==
    /\ en_envs = <<ParentRoot, ChildRoot>>
    /\ en_env = Len(en_envs)
    /\ en_last = NoEnvOp
    /\ en_steps = 0

EnvMore == en_steps < MaxEnvSteps

\* The step of a form that leaves the VM as r.
EnvStep(r, op, name, val) ==
    /\ en_envs' = r.envs
    /\ en_env' = r.env
    /\ en_last' = [op |-> op, name |-> name, val |-> val, ok |-> ~r.jumped,
                   msg |-> r.err, envs |-> en_envs, env |-> en_env]
    /\ en_steps' = en_steps + 1
    /\ UNCHANGED notEnv

\* (define name val)
EnvDefine ==
    /\ EnvMore
    /\ \E name \in EnvNames, val \in EnvVals :
           EnvStep(lisp_defvar(EnvS, Sym(name), val), "define", name, val)

\* (defconst name val)
EnvDefConst ==
    /\ EnvMore
    /\ \E name \in EnvNames, val \in EnvVals :
           EnvStep(DefConst(EnvS, Sym(name), val), "defconst", name, val)

\* (set! name val)
EnvSet ==
    /\ EnvMore
    /\ \E name \in EnvNames, val \in EnvVals :
           EnvStep(lisp_setvar(EnvS, Sym(name), val), "set!", name, val)

\* lisp_begin_env(vm, vm->env): the body of a procedure made here, or of let.
EnvEnter ==
    /\ EnvMore
    /\ EnvStep(lisp_env_new(EnvS, en_env), "enter", "", NIL)

\* lisp_end_env: vm->env is again the environment saved by lisp_begin_env.
EnvLeave ==
    /\ EnvMore
    /\ en_envs[en_env].vm = ThisVm
    /\ en_envs[en_env].parent # 0
    /\ en_envs[en_envs[en_env].parent].vm = ThisVm
    /\ EnvStep([EnvS EXCEPT !.env = en_envs[en_env].parent], "leave", "", NIL)

(***************************************************************************)
(* Output ports: the io buffer, lisp_port_flush and the write operations   *)
(*                                                                         *)
(* The port is an output port opened on a stream whose write callback      *)
(* takes every byte it is given.  o_sent is what lisp_stream_write was     *)
(* handed, in order.  The sizes are scaled: the buffer of a new port holds *)
(* BufCap bytes (IOBUFSIZE, FILEIOBUFSIZE), and show_expr allows MaxOutput *)
(* more bytes (60).                                                        *)
(***************************************************************************)
BufCap == 4
MaxOutput == 3
MaxText == 2
MaxOutSteps == 4

OutBytes == {"a", "\n"}

\* The strings and byte blocks written: the short ones, and runs of "a"
\* around the capacity of a new buffer.
Run(n) == [i \in 1..n |-> "a"]
Texts ==
    UNION {[1..n -> OutBytes] : n \in 1..MaxText}
        \cup {Run(n) : n \in (BufCap - 1)..(BufCap + 1)}

HasNewline(text) == \E i \in DOMAIN text : text[i] = "\n"

\* lisp_buffer_grow: the capacity doubles until it holds size bytes.
RECURSIVE lisp_buffer_grow(_, _)
lisp_buffer_grow(cap, size) ==
    IF size > cap THEN lisp_buffer_grow(cap * 2, size) ELSE cap

\* lisp_buffer_add, lisp_buffer_add_byte
lisp_buffer_add(p, c) ==
    [p EXCEPT !.cap = IF Len(p.buf) + 1 >= @ THEN lisp_buffer_grow(@, @ * 2)
                      ELSE @,
              !.buf = Append(@, c)]

\* lisp_buffer_add_bytes
lisp_buffer_add_bytes(p, data) ==
    [p EXCEPT !.cap = lisp_buffer_grow(@, Len(p.buf) + Len(data)),
              !.buf = @ \o data]

\* lisp_buffer_vprintf: the text is rendered into the free part of the
\* buffer, which is grown first when the text and its terminator do not fit.
lisp_buffer_vprintf(p, text) ==
    [p EXCEPT !.cap = IF Len(text) >= @ - Len(p.buf)
                      THEN lisp_buffer_grow(@, Len(p.buf) + Len(text) + 1)
                      ELSE @,
              !.buf = @ \o text]

\* lisp_stream_write on the stream of the port, which is open as long as
\* the port has it.
StreamWrite(o, data) == [o EXCEPT !.sent = @ \o data]

\* lisp_port_flush
OutPortFlush(o) ==
    IF ~o.p.stream \/ o.p.buf = <<>> THEN o
    ELSE IF o.p.max_output > 0
    THEN IF o.p.byte_count < o.p.max_output
         THEN With(Min(Len(o.p.buf), o.p.max_output - o.p.byte_count),
                   LAMBDA m :
                       [StreamWrite(o, SubSeq(o.p.buf, 1, m))
                            EXCEPT !.p.byte_count = @ + m, !.p.buf = <<>>])
         ELSE [o EXCEPT !.p.buf = <<>>]
    ELSE [StreamWrite(o, o.p.buf) EXCEPT !.p.byte_count = @ + Len(o.p.buf),
                                         !.p.buf = <<>>]

\* lisp_port_close of an output port
OutPortClose(o) ==
    IF o.p.closed THEN o
    ELSE [OutPortFlush(o) EXCEPT !.p.stream = FALSE, !.p.closed = TRUE]

\* lisp_port_putc
lisp_port_putc(o, c) ==
    IF o.p.closed THEN o
    ELSE With(IF Len(o.p.buf) >= o.p.cap THEN OutPortFlush(o) ELSE o,
              LAMBDA f :
         With([f EXCEPT !.p = lisp_buffer_add(@, c)], LAMBDA a :
              IF a.p.no_buf \/ c = "\n" \/ Len(a.p.buf) = a.p.cap
              THEN OutPortFlush(a) ELSE a))

\* The loop of lisp_port_puts from byte i on; should_flush is carried along.
RECURSIVE PutsLoop(_, _, _, _)
PutsLoop(o, s, i, should_flush) ==
    IF i > Len(s)
    THEN IF o.p.no_buf \/ should_flush THEN OutPortFlush(o) ELSE o
    ELSE IF o.p.cap = Len(o.p.buf)
    THEN PutsLoop([OutPortFlush(o) EXCEPT !.p = lisp_buffer_add(@, s[i])],
                  s, i + 1, s[i] = "\n")
    ELSE PutsLoop([o EXCEPT !.p = lisp_buffer_add(@, s[i])],
                  s, i + 1, should_flush \/ s[i] = "\n")

\* lisp_port_puts
lisp_port_puts(o, s) == PutsLoop(o, s, 1, FALSE)

\* lisp_port_put_bytes
lisp_port_put_bytes(o, data) ==
    IF o.p.stream
    THEN IF o.p.cap - Len(o.p.buf) >= Len(data)
         THEN [o EXCEPT !.p = lisp_buffer_add_bytes(@, data)]
         ELSE [StreamWrite(OutPortFlush(o), data)
                   EXCEPT !.p.byte_count = @ + Len(data)]
    ELSE [o EXCEPT !.p = lisp_buffer_add_bytes(@, data)]

\* lisp_port_printf, lisp_port_vprintf
lisp_port_printf(o, text) ==
    With([o EXCEPT !.p = lisp_buffer_vprintf(@, text)], LAMBDA a :
         IF a.p.no_buf THEN OutPortFlush(a) ELSE a)

O == [p |-> o_port, sent |-> o_sent]

OutIdle ==
    /\ o_port = [closed |-> TRUE]
    /\ o_sent = <<>>
    /\ o_last = [op |-> "none"]
    /\ o_steps = 0

\* A port just made on an output stream; vm->error and the port of stderr
\* have no_buf set, and show_expr has set max_output on the error port.
OutInit ==
    /\ \E nb \in BOOLEAN, mo \in {0, MaxOutput} :
           o_port = [closed |-> FALSE, stream |-> TRUE, no_buf |-> nb,
                     max_output |-> mo, byte_count |-> 0, buf |-> <<>>,
                     cap |-> BufCap]
    /\ o_sent = <<>>
    /\ o_last = [op |-> "none", stream |-> TRUE, cap |-> BufCap, text |-> <<>>]
    /\ o_steps = 0

OutMore == o_steps < MaxOutSteps

OutStep(o, op, text) ==
    /\ o_port' = o.p
    /\ o_sent' = o.sent
    /\ o_last' = [op |-> op, stream |-> o_port.stream, cap |-> o_port.cap,
                  text |-> text]
    /\ o_steps' = o_steps + 1
    /\ UNCHANGED notOut

OutPutc ==
    /\ OutMore
    /\ \E c \in OutBytes : OutStep(lisp_port_putc(O, c), "putc", <<c>>)

\* write-string
OutPuts ==
    /\ OutMore
    /\ \E s \in Texts : OutStep(lisp_port_puts(O, s), "puts", s)

\* write-buffer
OutPutBytes ==
    /\ OutMore
    /\ \E data \in Texts :
           OutStep(lisp_port_put_bytes(O, data), "put_bytes", data)

OutPrintf ==
    /\ OutMore
    /\ \E text \in Texts :
           OutStep(lisp_port_printf(O, text), "printf", text)

\* flush
OutFlush ==
    /\ OutMore
    /\ OutStep(OutPortFlush(O), "flush", <<>>)

\* close
OutClose ==
    /\ OutMore
    /\ OutStep(OutPortClose(O), "close", <<>>)

(***************************************************************************)
(* Input ports: the read cursor input_pos and the io buffer                *)
(*                                                                         *)
(* The port is an input port, either on a stream (open-input-file,         *)
(* lisp_make_input_port) or on a buffer of the program without a stream    *)
(* (open-input-buffer), which the program still holds and may clear.       *)
(* Positions and lengths are size_t, scaled to SizeBits bits.  The bytes   *)
(* are "s" from the stream, "b" from the buffer of the program and "z"     *)
(* for memory that was zeroed; a read past the allocation of the buffer    *)
(* gives any of them.                                                      *)
(***************************************************************************)
InCap == 3
MaxInData == 4
MaxInSteps == 5
SizeBits == 8

SizeMod == 2 ^ SizeBits
InBytes == {"s", "b", "z"}
Zeroed(n) == [k \in 1..n |-> "z"]

\* The counts given to lisp_port_drain; the last is (size_t)-1, as
\* lisp_vm_run passes it.
DrainCounts == {0, 1, 2, SizeMod - 1}

\* lisp_buffer_clear
lisp_buffer_clear(p) ==
    [p EXCEPT !.buf = Zeroed(Min(p.len, p.cap)) \o SubSeq(@, Min(p.len, p.cap) + 1, p.cap),
              !.len = 0]

\* lisp_port_fill; n is what the read callback of the stream returns.
lisp_port_fill(i, n) ==
    IF i.p.stream /\ i.p.pos >= i.p.len
    THEN [i EXCEPT !.p.buf = [k \in 1..n |-> "s"] \o SubSeq(@, n + 1, i.p.cap),
                   !.p.byte_count = @ + n,
                   !.p.len = n,
                   !.p.pos = 0,
                   !.src = @ - n,
                   !.ret = n]
    ELSE [i EXCEPT !.ret = (i.p.len - i.p.pos) % SizeMod]

\* lisp_port_drain
InPortDrain(i, n) ==
    IF n < (i.p.len - i.p.pos) % SizeMod
    THEN [i EXCEPT !.p.pos = (@ + n) % SizeMod]
    ELSE IF i.p.stream THEN [i EXCEPT !.p.len = 0, !.p.pos = 0]
    ELSE [i EXCEPT !.p.pos = i.p.len]

\* The byte at iobuf->buf[pos]; beyond the allocation it is any byte.
ByteRead(p, junk) == IF p.pos < p.cap THEN p.buf[p.pos + 1] ELSE junk

\* lisp_port_getc after the buffer was found to hold a byte.
GetcTake(i, junk) ==
    [i EXCEPT !.ret = ByteRead(i.p, junk),
              !.at = i.p.pos,
              !.filled = i.p.len,
              !.p.pos = (@ + 1) % SizeMod]

\* lisp_port_getc
lisp_port_getc(i, n, junk) ==
    IF i.p.pos >= i.p.len
    THEN With(lisp_port_fill(i, n), LAMBDA f :
              IF f.ret = 0 THEN [f EXCEPT !.ret = "EOF"]
              ELSE GetcTake(f, junk))
    ELSE GetcTake(i, junk)

\* lisp_port_unget of the byte c that the last lisp_port_getc returned.
lisp_port_unget(i, c) ==
    IF i.p.closed \/ c = "EOF" THEN i
    ELSE With((i.p.pos - 1) % SizeMod, LAMBDA q :
              [i EXCEPT !.p.pos = q,
                        !.p.buf = IF q < i.p.cap THEN [@ EXCEPT ![q + 1] = c]
                                  ELSE @])

\* case S_SEEK on an input port
InPortSeek(i) == [i EXCEPT !.p.pos = 0, !.p.len = 0, !.src = MaxInData]

\* lisp_port_close of an input port
InPortClose(i) ==
    IF i.p.closed THEN i
    ELSE [i EXCEPT !.p.stream = FALSE, !.p.closed = TRUE]

I == [p |-> i_port, src |-> i_src, ret |-> 0, at |-> 0, filled |-> 0]

InIdle ==
    /\ i_port = [closed |-> TRUE]
    /\ i_src = 0
    /\ i_last = [op |-> "none"]
    /\ i_steps = 0

\* A port just opened: on a stream with an empty zeroed buffer, or on a
\* buffer of the program that holds n bytes.
InInit ==
    /\ \/ /\ i_port = [closed |-> FALSE, stream |-> TRUE, shared |-> FALSE,
                       pos |-> 0, len |-> 0, cap |-> InCap,
                       buf |-> Zeroed(InCap), byte_count |-> 0]
          /\ i_src = MaxInData
       \/ /\ \E n \in 0..InCap :
                 i_port = [closed |-> FALSE, stream |-> FALSE, shared |-> TRUE,
                           pos |-> 0, len |-> n, cap |-> InCap,
                           buf |-> [k \in 1..InCap |->
                                        IF k <= n THEN "b" ELSE "z"],
                           byte_count |-> 0]
          /\ i_src = 0
    /\ i_last = [op |-> "none", ret |-> 0, at |-> 0, filled |-> 0]
    /\ i_steps = 0

InMore == i_steps < MaxInSteps

InStep(i, op) ==
    /\ i_port' = i.p
    /\ i_src' = i.src
    /\ i_last' = [op |-> op, ret |-> i.ret, at |-> i.at, filled |-> i.filled]
    /\ i_steps' = i_steps + 1
    /\ UNCHANGED notIn

\* What the read callback may return when asked for cap bytes.
Reads == 0..Min(i_port.cap, i_src)

InFill ==
    /\ InMore
    /\ \E n \in Reads : InStep(lisp_port_fill(I, n), "fill")

InGetc ==
    /\ InMore
    /\ \E n \in Reads, junk \in InBytes :
           InStep(lisp_port_getc(I, n, junk), "getc")

\* lisp_port_unget, paired with the lisp_port_getc before it.
InUnget ==
    /\ InMore
    /\ i_last.op = "getc"
    /\ InStep(lisp_port_unget(I, i_last.ret), "unget")

InDrain ==
    /\ InMore
    /\ \E n \in DrainCounts : InStep(InPortDrain(I, n), "drain")

\* seek
InSeek ==
    /\ InMore
    /\ ~i_port.closed
    /\ i_port.stream
    /\ InStep(InPortSeek(I), "seek")

\* close
InClose ==
    /\ InMore
    /\ InStep(InPortClose(I), "close")

\* case S_CLEAR on the buffer that the port was opened on.
InClear ==
    /\ InMore
    /\ i_port.shared
    /\ InStep([I EXCEPT !.p = lisp_buffer_clear(@)], "clear")

(***************************************************************************)
(* spawn: a process, the children it spawns, the workers and the scheduler *)
(*                                                                         *)
(* Process 0 is the spawning process; it spawns the processes 1 .. MaxKids *)
(* with procedures of its own VM, so that it is both the parent of every   *)
(* child and the owner of the parent VM of every child.  The other         *)
(* processes of the table are not shown: they post messages to the ones    *)
(* shown, and they move the `last' of find_runnable, so that any runnable  *)
(* process may be the next one found.  An activation of a process is one   *)
(* lisp_try(proc->vm, run_vm, proc) of thread_main.                        *)
(***************************************************************************)
MaxKids == 2
MaxActs == 2
MaxPosts == 2

Kids == 1 .. MaxKids
FamProcs == 0 .. MaxKids

NoProcess == [state |-> "NONE", run |-> "none", mbox |-> 0]

\* twk_create_process, then the fields op_spawn sets and its message.
Spawned == [state |-> "CREATED", run |-> "process_init", mbox |-> 1]

\* twk_sched(proc, true)
SchedNow(procs, p) ==
    IF procs[p].state \in {"CREATED", "WAITING"}
    THEN [procs EXCEPT ![p].state = "RUNNABLE"]
    ELSE procs

\* remove_child(parent, child) for the parent 0: the child leaves the list,
\* and the parent that has no child left goes from PENDING to WAITING and
\* from DONE to SHUTDOWN.
remove_child(procs, children, child) ==
    LET left == SelectSeq(children, LAMBDA k : k # child)
    IN [children |-> left,
        procs |-> IF left = <<>> /\ procs[0].state = "PENDING"
                  THEN [procs EXCEPT ![0].state = "WAITING"]
                  ELSE IF left = <<>> /\ procs[0].state = "DONE"
                  THEN [procs EXCEPT ![0].state = "SHUTDOWN"]
                  ELSE procs]

\* thread_main after lisp_try: the children at the front of the list that
\* are still CREATED become RUNNABLE.
RECURSIVE MakeRunnable(_, _, _)
MakeRunnable(procs, children, i) ==
    IF i > Len(children) \/ procs[children[i]].state # "CREATED" THEN procs
    ELSE MakeRunnable([procs EXCEPT ![children[i]].state = "RUNNABLE"],
                      children, i + 1)

\* thread_main, the last statements: the state the process is left in.
EndState(st, ret, nochild) ==
    IF ~ret THEN (IF nochild THEN "SHUTDOWN" ELSE "DONE")
    ELSE IF st = "DONE" /\ nochild THEN "SHUTDOWN"
    ELSE IF st = "RUNNING" THEN "WAITING"
    ELSE st

\* process_init: the owner of the init procedure is PENDING or DONE.
OwnerIdle(st) == st \in {"PENDING", "DONE"}

ChildrenOf(p) == IF p = 0 THEN fa_children ELSE <<>>

\* The worker w is inside lisp_try, evaluating code of the process p.
Evaluating(w, p) == fa_thr[w].proc = p /\ fa_thr[w].pc = "run"

FamIdle ==
    /\ fa_proc = <<>>
    /\ fa_children = <<>>
    /\ fa_thr = <<>>
    /\ fa_hist = [acts |-> 0]

\* Process 0 has been created and scheduled, the workers wait for a
\* runnable process.
FamInit ==
    /\ fa_proc = [p \in FamProcs |->
                    IF p = 0 THEN [state |-> "RUNNABLE", run |-> "process_run",
                                   mbox |-> 0]
                    ELSE NoProcess]
    /\ fa_children = <<>>
    /\ fa_thr = [w \in Workers |-> [pc |-> "fetch", proc |-> 0, ret |-> TRUE]]
    /\ fa_hist = [acts |-> 0, done |-> 0, posts |-> 0,
                  born |-> [k \in Kids |-> 0]]

\* thread_main: find_runnable under runnable_lock, proc->state = RUNNING,
\* then run_vm calls proc->run.
FamFetch ==
    \E w \in Workers, p \in FamProcs :
        /\ fa_thr[w].pc = "fetch"
        /\ fa_proc[p].state = "RUNNABLE"
        /\ p = 0 => fa_hist.acts < MaxActs
        /\ fa_proc' = [fa_proc EXCEPT ![p].state = "RUNNING"]
        /\ fa_thr' = [fa_thr EXCEPT ![w] =
               [pc |-> IF fa_proc[p].run = "process_init" THEN "init" ELSE "run",
                proc |-> p, ret |-> TRUE]]
        /\ fa_hist' = IF p = 0 THEN [fa_hist EXCEPT !.acts = @ + 1] ELSE fa_hist
        /\ UNCHANGED fa_children
        /\ UNCHANGED notFam

\* process_init: the test of the state of the owner of the init procedure;
\* lisp_err leaves lisp_try with no result.
FamProcessInit ==
    \E w \in Workers :
        /\ fa_thr[w].pc = "init"
        /\ IF OwnerIdle(fa_proc[0].state)
           THEN /\ fa_proc' = [fa_proc EXCEPT ![fa_thr[w].proc].run = "process_run"]
                /\ fa_thr' = [fa_thr EXCEPT ![w].pc = "run"]
           ELSE /\ fa_thr' = [fa_thr EXCEPT ![w].pc = "after", ![w].ret = FALSE]
                /\ UNCHANGED fa_proc
        /\ UNCHANGED <<fa_children, fa_hist>>
        /\ UNCHANGED notFam

\* op_spawn, called by the code of process 0.
FamSpawn ==
    \E w \in Workers, k \in Kids :
        /\ Evaluating(w, 0)
        /\ fa_proc[k].state = "NONE"
        /\ fa_hist.born[k] = 0
        /\ fa_proc' = [fa_proc EXCEPT ![k] = Spawned]
        /\ fa_children' = <<k>> \o fa_children
        /\ fa_hist' = [fa_hist EXCEPT !.born[k] = fa_hist.acts]
        /\ UNCHANGED fa_thr
        /\ UNCHANGED notFam

\* op_wait
FamWait ==
    \E w \in Workers :
        /\ fa_thr[w].pc = "run"
        /\ fa_proc[fa_thr[w].proc].state # "PENDING"
        /\ fa_proc' = [fa_proc EXCEPT ![fa_thr[w].proc].state = "PENDING"]
        /\ UNCHANGED <<fa_children, fa_thr, fa_hist>>
        /\ UNCHANGED notFam

\* op_exit
FamExit ==
    \E w \in Workers :
        /\ fa_thr[w].pc = "run"
        /\ fa_proc[fa_thr[w].proc].state # "DONE"
        /\ fa_proc' = [fa_proc EXCEPT ![fa_thr[w].proc].state = "DONE"]
        /\ UNCHANGED <<fa_children, fa_thr, fa_hist>>
        /\ UNCHANGED notFam

\* The code of the process reads a message of its mailbox.
FamReceive ==
    \E w \in Workers :
        /\ fa_thr[w].pc = "run"
        /\ fa_proc[fa_thr[w].proc].mbox > 0
        /\ fa_proc' = [fa_proc EXCEPT ![fa_thr[w].proc].mbox = @ - 1]
        /\ UNCHANGED <<fa_children, fa_thr, fa_hist>>
        /\ UNCHANGED notFam

\* lisp_try returns, with the result or with NULL after an error.
FamReturn ==
    \E w \in Workers, ret \in BOOLEAN :
        /\ fa_thr[w].pc = "run"
        /\ fa_thr' = [fa_thr EXCEPT ![w].pc = "after", ![w].ret = ret]
        /\ fa_hist' = IF fa_thr[w].proc = 0
                      THEN [fa_hist EXCEPT !.done = @ + 1] ELSE fa_hist
        /\ UNCHANGED <<fa_proc, fa_children>>
        /\ UNCHANGED notFam

\* thread_main: the new children become runnable, under parental_lock.
FamStartChildren ==
    \E w \in Workers :
        /\ fa_thr[w].pc = "after"
        /\ fa_proc' = MakeRunnable(fa_proc, ChildrenOf(fa_thr[w].proc), 1)
        /\ fa_thr' = [fa_thr EXCEPT ![w].pc = "end"]
        /\ UNCHANGED <<fa_children, fa_hist>>
        /\ UNCHANGED notFam

\* thread_main: the state of the process after the activation.
FamEnd ==
    \E w \in Workers :
        /\ fa_thr[w].pc = "end"
        /\ fa_proc' = [fa_proc EXCEPT ![fa_thr[w].proc].state =
               EndState(@, fa_thr[w].ret, ChildrenOf(fa_thr[w].proc) = <<>>)]
        /\ fa_thr' = [fa_thr EXCEPT ![w].pc = "fetch"]
        /\ UNCHANGED <<fa_children, fa_hist>>
        /\ UNCHANGED notFam

\* sched_loop: shutdown_process of a process in the state SHUTDOWN.
FamShutdown ==
    \E p \in FamProcs :
        /\ fa_proc[p].state = "SHUTDOWN"
        /\ LET r == IF p = 0 THEN [children |-> fa_children, procs |-> fa_proc]
                    ELSE remove_child(fa_proc, fa_children, p)
           IN /\ fa_proc' = [r.procs EXCEPT ![p] = NoProcess]
              /\ fa_children' = r.children
        /\ UNCHANGED <<fa_thr, fa_hist>>
        /\ UNCHANGED notFam

\* sched_loop: a waiting process with a message in its mailbox is scheduled.
FamSchedLoop ==
    \E p \in FamProcs :
        /\ fa_proc[p].state = "WAITING"
        /\ fa_proc[p].mbox > 0
        /\ fa_proc' = SchedNow(fa_proc, p)
        /\ UNCHANGED <<fa_children, fa_thr, fa_hist>>
        /\ UNCHANGED notFam

\* twk_post_message by a process that is not shown.
FamPost ==
    \E p \in FamProcs :
        /\ fa_hist.posts < MaxPosts
        /\ fa_proc[p].state \notin {"DONE", "SHUTDOWN", "NONE"}
        /\ LET written == [fa_proc EXCEPT ![p].mbox = @ + 1]
           IN fa_proc' = IF fa_proc[p].state = "WAITING"
                         THEN SchedNow(written, p) ELSE written
        /\ fa_hist' = [fa_hist EXCEPT !.posts = @ + 1]
        /\ UNCHANGED <<fa_children, fa_thr>>
        /\ UNCHANGED notFam

(***************************************************************************)
(* Arrays and dictionaries: the block of items, cap and count              *)
(*                                                                         *)
(* An object is [kind, slots, cap, count]: slots is the number of item     *)
(* pointers the block behind `items' has room for, as lisp_alloc and       *)
(* lisp_realloc round the sizes they are given.  The size of a pointer is   *)
(* 4 or 8 with the build, and so is the presence of the asserts.           *)
(***************************************************************************)
MaxLit == 5
MaxArrSteps == 4
BLKSIZE == 16
MinArrayCap == 4
IniArrayCap == 8

PtrSizes == {4, 8}

ROUND_BLOCK_SIZE(sz) == ((sz + (BLKSIZE - 1)) \div BLKSIZE) * BLKSIZE

\* lisp_alloc(vm, n * sizeof(pointer)), counted in item slots.  A size
\* of 0 fails the assert; without the assert the block has no usable byte.
AllocSlots(b, n) == ROUND_BLOCK_SIZE(n * b.ptr) \div b.ptr

NoArray == [kind |-> "none", slots |-> 0, cap |-> 0, count |-> 0, w |-> <<>>]

Aborted == [NoArray EXCEPT !.kind = "aborted"]

\* lisp_array_new
array_new(b, cap) ==
    IF cap = 0 /\ ~b.ndebug THEN Aborted
    ELSE [kind |-> "array", slots |-> AllocSlots(b, cap),
          cap |-> IF cap > MinArrayCap THEN cap ELSE MinArrayCap,
          count |-> 0, w |-> <<>>]

\* lisp_array_copy of count items of the stack (mkarray)
array_copy(b, count) ==
    LET cap == IF count < MinArrayCap THEN MinArrayCap ELSE count
    IN [kind |-> "array", slots |-> AllocSlots(b, cap), cap |-> cap,
        count |-> count, w |-> [i \in 1 .. count |-> [at |-> i - 1, slots |-> AllocSlots(b, cap)]]]

\* lisp_array_grow: lisp_realloc to twice the size cap stands for.
array_grow(b, a) ==
    [a EXCEPT !.slots = AllocSlots(b, 2 * a.cap), !.cap = 2 * a.cap]

\* lisp_array_push: a->items[a->count++] = obj
array_push_item(b, a) ==
    LET g == IF a.count = a.cap THEN array_grow(b, a) ELSE a
    IN [g EXCEPT !.count = @ + 1,
                 !.w = Append(@, [at |-> g.count, slots |-> g.slots])]

\* lisp_dict_new
dict_new(b, n) ==
    LET a == array_new(b, n)
    IN IF a.kind = "aborted" THEN a
       ELSE [a EXCEPT !.kind = "dict", !.count = 1]

RECURSIVE PushTimes(_, _, _)
PushTimes(b, a, n) ==
    IF n = 0 \/ a.kind = "aborted" THEN a
    ELSE PushTimes(b, array_push_item(b, a), n - 1)

\* mkdict(vm, n): lisp_dict_new(vm, n), then lisp_dict_add_item of each of
\* the n pairs read.
mkdict_block(b, n) == PushTimes(b, dict_new(b, n), n)

ArrIdle ==
    /\ ar_obj = NoArray
    /\ ar_build = [ptr |-> 0]
    /\ ar_last = [op |-> "none"]
    /\ ar_steps = 0

ArrInit ==
    /\ ar_obj = NoArray
    /\ ar_build \in [ptr : PtrSizes, ndebug : BOOLEAN]
    /\ ar_last = [op |-> "none"]
    /\ ar_steps = 0

ArrDone(a, op, n) ==
    /\ ar_obj' = [a EXCEPT !.w = <<>>]
    /\ ar_last' = [op |-> op, n |-> n, w |-> a.w]
    /\ ar_steps' = ar_steps + 1
    /\ UNCHANGED ar_build
    /\ UNCHANGED notArr

ArrFresh == ar_obj.kind = "none"

ArrMore(kind) == ar_obj.kind = kind /\ ar_steps < MaxArrSteps

Unwritten(a) == [a EXCEPT !.w = <<>>]

\* S_ARRAY: (array x ...)
ArrArray ==
    \E n \in 0 .. 2 :
        /\ ArrFresh
        /\ ArrDone(PushTimes(ar_build, array_new(ar_build, IniArrayCap), n), "array", n)

\* The reader on an array literal of n items: mkarray
ArrMkarray ==
    \E n \in 0 .. MaxLit :
        /\ ArrFresh
        /\ ArrDone(array_copy(ar_build, n), "mkarray", n)

\* S_DICT: (dict pair ...)
ArrDict ==
    \E n \in 0 .. 2 :
        /\ ArrFresh
        /\ ArrDone(PushTimes(ar_build, dict_new(ar_build, IniArrayCap), n), "dict", n)

\* The reader on a dictionary literal of n entries: mkdict
ArrMkdict ==
    \E n \in 0 .. MaxLit :
        /\ ArrFresh
        /\ ArrDone(mkdict_block(ar_build, n), "mkdict", n)

\* S_ARRAY_PUSH
ArrPush ==
    /\ ArrMore("array")
    /\ ArrDone(array_push_item(ar_build, Unwritten(ar_obj)), "array-push!", 1)

\* S_ARRAY_POP, on an array that has an item
ArrPop ==
    /\ ArrMore("array")
    /\ ar_obj.count > 0
    /\ ArrDone([Unwritten(ar_obj) EXCEPT !.count = @ - 1], "array-pop!", 1)

\* S_ARRAY_SET: an index outside 0 .. count-1 is an error, nothing written.
ArrSet ==
    \E index \in 0 .. MaxLit :
        /\ ArrMore("array")
        /\ ArrDone(IF index >= ar_obj.count THEN Unwritten(ar_obj)
                   ELSE [Unwritten(ar_obj) EXCEPT
                            !.w = <<[at |-> index, slots |-> ar_obj.slots]>>],
                   "array-set!", index)

\* S_DICT_SET with a key the dictionary does not hold: lisp_dict_add
ArrDictSet ==
    /\ ArrMore("dict")
    /\ ArrDone(array_push_item(ar_build, Unwritten(ar_obj)), "dict-set!", 1)

(***************************************************************************)
(* Worker threads waiting for a runnable process (twk.c)                   *)
(*                                                                         *)
(* Two slots of the process table: the listener waits for mail, the other  *)
(* process was made runnable when it was created and runs as long as it    *)
(* likes.  Two workers run thread_main, the scheduler thread runs          *)
(* sched_loop and a sender thread calls twk_post_message for the listener. *)
(* runnable_lock is wk_lock; a worker inside pthread_cond_wait is          *)
(* "blocked".  thread->shutdown stays 0 and no process fails, exits or has *)
(* children.                                                               *)
(***************************************************************************)
WkSlots == 2            \* MAX_PROCESS, scaled down
WkProcs == 0 .. WkSlots - 1
Listener == 0
NoLock == "none"

\* find_runnable: the first RUNNABLE slot after `last', or -1 for NULL.
RECURSIVE FindFrom(_, _, _)
FindFrom(state, j, i) ==
    IF i >= WkSlots THEN -1
    ELSE IF state[j % WkSlots] = "RUNNABLE" THEN j % WkSlots
         ELSE FindFrom(state, j + 1, i + 1)
find_runnable_from(state, last) == FindFrom(state, last + 1, 0)

\* The workers pthread_cond_signal(&runnable_notify) may unblock.
CondWaiters == {w \in Workers : wk_thr[w].pc = "blocked"}

\* A variant of MboxPending for a scheduler that never looks at mailboxes.
MboxNeverPending(p) == FALSE

\* sched_loop: proc->mbox && proc->mbox->rpos != proc->mbox->wpos
MboxPending(p) == wk_mbox[p] > 0

WkIdleCall == [pc |-> "idle", proc |-> Listener]

WkInit ==
    /\ wk_state = [p \in WkProcs |-> IF p = Listener THEN "WAITING" ELSE "RUNNABLE"]
    /\ wk_mbox = [p \in WkProcs |-> 0]
    /\ wk_last = 0
    /\ wk_lock = NoLock
    /\ wk_thr = [w \in Workers |-> [pc |-> "lock", proc |-> -1]]
    /\ wk_call = [c \in Callers |-> WkIdleCall]
    /\ wk_hist = [posts |-> 0, late |-> 0, via |-> "none"]

\* No process table: the state of this part while another is examined.
WkIdle ==
    /\ wk_state = [p \in WkProcs |-> "NONE"]
    /\ wk_mbox = [p \in WkProcs |-> 0]
    /\ wk_last = 0
    /\ wk_lock = NoLock
    /\ wk_thr = [w \in Workers |-> [pc |-> "none", proc |-> -1]]
    /\ wk_call = [c \in Callers |-> [pc |-> "none", proc |-> -1]]
    /\ wk_hist = [posts |-> 0, late |-> 0, via |-> "none"]

\* thread_main: pthread_mutex_lock(&runnable_lock), also on the way out of
\* pthread_cond_wait.
WkLock(w) ==
    /\ wk_thr[w].pc = "lock"
    /\ wk_lock = NoLock
    /\ wk_lock' = w
    /\ wk_thr' = [wk_thr EXCEPT ![w].pc = "find"]
    /\ UNCHANGED <<wk_state, wk_mbox, wk_last, wk_call, wk_hist>>

\* thread_main: proc = find_runnable(); with a process, proc->state =
\* TWK_PS_RUNNING and pthread_mutex_unlock; with none the worker goes on to
\* pthread_cond_wait with the lock still held.
WkFind(w) ==
    /\ wk_thr[w].pc = "find"
    /\ LET j == find_runnable_from(wk_state, wk_last)
       IN IF j >= 0
          THEN /\ wk_state' = [wk_state EXCEPT ![j] = "RUNNING"]
               /\ wk_last' = j
               /\ wk_lock' = NoLock
               /\ wk_thr' = [wk_thr EXCEPT ![w] = [pc |-> "run", proc |-> j]]
          ELSE /\ wk_thr' = [wk_thr EXCEPT ![w].pc = "wait"]
               /\ UNCHANGED <<wk_state, wk_last, wk_lock>>
    /\ UNCHANGED <<wk_mbox, wk_call, wk_hist>>

\* thread_main: pthread_cond_wait(&runnable_notify, &runnable_lock) gives
\* the lock up and blocks the worker.
WkWait(w) ==
    /\ wk_thr[w].pc = "wait"
    /\ wk_lock' = NoLock
    /\ wk_thr' = [wk_thr EXCEPT ![w].pc = "blocked"]
    /\ UNCHANGED <<wk_state, wk_mbox, wk_last, wk_call, wk_hist>>

\* pthread_cond_wait may return without a signal.
WkSpurious(w) ==
    /\ wk_thr[w].pc = "blocked"
    /\ wk_thr' = [wk_thr EXCEPT ![w].pc = "lock"]
    /\ UNCHANGED <<wk_state, wk_mbox, wk_last, wk_lock, wk_call, wk_hist>>

\* run_vm: the process reads a message from its mailbox (mbox_read).
WkReceive(w) ==
    /\ wk_thr[w].pc = "run"
    /\ wk_mbox[wk_thr[w].proc] > 0
    /\ wk_mbox' = [wk_mbox EXCEPT ![wk_thr[w].proc] = @ - 1]
    /\ UNCHANGED <<wk_state, wk_last, wk_lock, wk_thr, wk_call, wk_hist>>

\* thread_main: lisp_try has returned a value; a process still RUNNING goes
\* back to WAITING and the worker to the head of its loop.
WkEnd(w) ==
    /\ wk_thr[w].pc = "run"
    /\ wk_state' = [wk_state EXCEPT ![wk_thr[w].proc] =
                       IF @ = "RUNNING" THEN "WAITING" ELSE @]
    /\ wk_thr' = [wk_thr EXCEPT ![w] = [pc |-> "lock", proc |-> -1]]
    /\ UNCHANGED <<wk_mbox, wk_last, wk_lock, wk_call, wk_hist>>

\* twk_post_message: the test of proc->state, then the write under
\* mbox_lock (the mailbox has room).
WkPostWrite ==
    /\ wk_call["sender"].pc = "idle"
    /\ wk_hist.posts < MaxPosts
    /\ wk_state[Listener] \notin {"DONE", "SHUTDOWN", "NONE"}
    /\ wk_mbox[Listener] < MaxMail
    /\ wk_mbox' = [wk_mbox EXCEPT ![Listener] = @ + 1]
    /\ wk_call' = [wk_call EXCEPT !["sender"] = [pc |-> "posted", proc |-> Listener]]
    /\ wk_hist' = [wk_hist EXCEPT !.posts = @ + 1]
    /\ UNCHANGED <<wk_state, wk_last, wk_lock, wk_thr>>

\* twk_post_message: if (ok && proc->state == TWK_PS_WAITING) twk_sched(..).
WkPostWake ==
    /\ wk_call["sender"].pc = "posted"
    /\ IF wk_state[Listener] = "WAITING"
       THEN /\ wk_call' = [wk_call EXCEPT !["sender"].pc = "test"]
            /\ UNCHANGED wk_hist
       ELSE /\ wk_call' = [wk_call EXCEPT !["sender"].pc = "idle"]
            /\ wk_hist' = [wk_hist EXCEPT !.late = @ + 1]
    /\ UNCHANGED <<wk_state, wk_mbox, wk_last, wk_lock, wk_thr>>

\* sched_loop, one process of its scan: a WAITING process with mail is
\* handed to twk_sched(proc, true).  select() times out after at most ten
\* seconds, so the scan is repeated for ever.
WkLoopScan(p) ==
    /\ wk_call["loop"].pc = "idle"
    /\ wk_state[p] = "WAITING"
    /\ MboxPending(p)
    /\ wk_call' = [wk_call EXCEPT !["loop"] = [pc |-> "test", proc |-> p]]
    /\ UNCHANGED <<wk_state, wk_mbox, wk_last, wk_lock, wk_thr, wk_hist>>

\* twk_sched(proc, true): the test of proc->state.
WkSchedTest(c) ==
    /\ wk_call[c].pc = "test"
    /\ wk_call' = [wk_call EXCEPT ![c].pc =
                      IF wk_state[wk_call[c].proc] \in {"CREATED", "WAITING"}
                      THEN "assign" ELSE "idle"]
    /\ UNCHANGED <<wk_state, wk_mbox, wk_last, wk_lock, wk_thr, wk_hist>>

\* twk_sched: proc->state = TWK_PS_RUNNABLE; runnable_lock is not taken.
WkSchedAssign(c) ==
    /\ wk_call[c].pc = "assign"
    /\ wk_state' = [wk_state EXCEPT ![wk_call[c].proc] = "RUNNABLE"]
    /\ wk_call' = [wk_call EXCEPT ![c].pc = "signal"]
    /\ wk_hist' = [wk_hist EXCEPT !.via = c]
    /\ UNCHANGED <<wk_mbox, wk_last, wk_lock, wk_thr>>

\* twk_sched: pthread_cond_signal(&runnable_notify) unblocks one of the
\* workers blocked in pthread_cond_wait, if there is one.
WkSchedSignal(c) ==
    /\ wk_call[c].pc = "signal"
    /\ wk_call' = [wk_call EXCEPT ![c].pc = "idle"]
    /\ IF CondWaiters = {}
       THEN UNCHANGED wk_thr
       ELSE \E w \in CondWaiters : wk_thr' = [wk_thr EXCEPT ![w].pc = "lock"]
    /\ UNCHANGED <<wk_state, wk_mbox, wk_last, wk_lock, wk_hist>>

WkWorkerLock == (\E w \in Workers : WkLock(w)) /\ UNCHANGED notWake
WkWorkerFind == (\E w \in Workers : WkFind(w)) /\ UNCHANGED notWake
WkWorkerWait == (\E w \in Workers : WkWait(w)) /\ UNCHANGED notWake
WkWorkerSpurious == (\E w \in Workers : WkSpurious(w)) /\ UNCHANGED notWake
WkWorkerReceive == (\E w \in Workers : WkReceive(w)) /\ UNCHANGED notWake
WkWorkerEnd == (\E w \in Workers : WkEnd(w)) /\ UNCHANGED notWake
WkPost == WkPostWrite /\ UNCHANGED notWake
WkPosted == WkPostWake /\ UNCHANGED notWake
WkScan == (\E p \in WkProcs : WkLoopScan(p)) /\ UNCHANGED notWake
WkTest == (\E c \in Callers : WkSchedTest(c)) /\ UNCHANGED notWake
WkAssign == (\E c \in Callers : WkSchedAssign(c)) /\ UNCHANGED notWake
WkSignal == (\E c \in Callers : WkSchedSignal(c)) /\ UNCHANGED notWake

(***************************************************************************)
(* The end of a parent's activation and the shutdown of its children       *)
(* (twk.c)                                                                 *)
(*                                                                         *)
(* A parent process is inside run_vm on a worker; up to MaxKids children   *)
(* are linked in proc->children, spawned in this activation (CREATED) or   *)
(* in an earlier one (RUNNING).  The worker ends the activation with the   *)
(* last statements of thread_main, which read proc->children and write     *)
(* proc->state without parental_lock; the scheduler thread shuts down      *)
(* every process it finds in state SHUTDOWN.                               *)
(***************************************************************************)
PdNoTarget == "none"

\* remove_child(parent, child), under parent->parental_lock: <<children,
\* parent->state>> afterwards.
PdRemoveChild(kids, st, k) ==
    LET left == kids \ {k}
    IN << left,
          IF left = {}
          THEN CASE st = "PENDING" -> "WAITING"
                 [] st = "DONE" -> "SHUTDOWN"
                 [] OTHER -> st
          ELSE st >>

\* thread_main, the last statements: the state the worker is going to
\* write, from what it reads of ret, proc->state and proc->children.
PdEndTarget(ret, st, nochild) ==
    IF ~ret THEN (IF nochild THEN "SHUTDOWN" ELSE "DONE")
    ELSE IF st = "DONE" /\ nochild THEN "SHUTDOWN"
    ELSE IF st = "RUNNING" THEN "WAITING"
    ELSE PdNoTarget

PdInit ==
    /\ pd_state = "RUNNING"
    /\ pd_kstate \in [Kids -> {"NONE", "CREATED", "RUNNING"}]
    /\ pd_kids = {k \in Kids : pd_kstate[k] # "NONE"}
    /\ pd_w = [pc |-> "run", ret |-> TRUE, target |-> PdNoTarget]
    /\ pd_hist = [exited |-> FALSE, failed |-> FALSE, raced |-> FALSE]

\* No parent: the state of this part while another is examined.
PdIdle ==
    /\ pd_state = "NONE"
    /\ pd_kstate = [k \in Kids |-> "NONE"]
    /\ pd_kids = {}
    /\ pd_w = [pc |-> "none", ret |-> TRUE, target |-> PdNoTarget]
    /\ pd_hist = [exited |-> FALSE, failed |-> FALSE, raced |-> FALSE]

\* op_exit, called by the parent during its activation.
PdExit ==
    /\ pd_w.pc = "run"
    /\ ~pd_hist.exited
    /\ pd_state' = "DONE"
    /\ pd_hist' = [pd_hist EXCEPT !.exited = TRUE]
    /\ UNCHANGED <<pd_kids, pd_kstate, pd_w>>

\* thread_main: lisp_try(proc->vm, run_vm, proc) returns a value, or NULL
\* after an error.
PdReturn ==
    /\ pd_w.pc = "run"
    /\ \E ret \in BOOLEAN :
          /\ pd_w' = [pd_w EXCEPT !.pc = "children", !.ret = ret]
          /\ pd_hist' = [pd_hist EXCEPT !.failed = ~ret]
    /\ UNCHANGED <<pd_state, pd_kids, pd_kstate>>

\* thread_main: the children still CREATED become RUNNABLE, under
\* parental_lock.
PdStartChildren ==
    /\ pd_w.pc = "children"
    /\ pd_kstate' = [k \in Kids |->
                        IF k \in pd_kids /\ pd_kstate[k] = "CREATED"
                        THEN "RUNNABLE" ELSE pd_kstate[k]]
    /\ pd_w' = [pd_w EXCEPT !.pc = "read"]
    /\ UNCHANGED <<pd_state, pd_kids, pd_hist>>

\* thread_main: the tests of ret, proc->state and proc->children.
PdEndRead ==
    /\ pd_w.pc = "read"
    /\ pd_w' = [pd_w EXCEPT !.pc = "write",
                            !.target = PdEndTarget(pd_w.ret, pd_state, pd_kids = {})]
    /\ UNCHANGED <<pd_state, pd_kids, pd_kstate, pd_hist>>

\* thread_main: proc->state = ... of the branch taken.
PdEndWrite ==
    /\ pd_w.pc = "write"
    /\ pd_state' = IF pd_w.target = PdNoTarget THEN pd_state ELSE pd_w.target
    /\ pd_w' = [pd_w EXCEPT !.pc = "done"]
    /\ UNCHANGED <<pd_kids, pd_kstate, pd_hist>>

\* A worker picks a RUNNABLE child.
PdKidPick(k) ==
    /\ pd_kstate[k] = "RUNNABLE"
    /\ pd_kstate' = [pd_kstate EXCEPT ![k] = "RUNNING"]
    /\ UNCHANGED <<pd_state, pd_kids, pd_w, pd_hist>>

\* The activation of a child, which has no children, ends: with an error
\* (SHUTDOWN) or with a value (WAITING).
PdKidEnd(k) ==
    /\ pd_kstate[k] = "RUNNING"
    /\ \E st \in {"SHUTDOWN", "WAITING"} : pd_kstate' = [pd_kstate EXCEPT ![k] = st]
    /\ UNCHANGED <<pd_state, pd_kids, pd_w, pd_hist>>

\* sched_loop finds a child in state SHUTDOWN: shutdown_process unlinks it
\* with remove_child and ends with proc->state = TWK_PS_NONE.
PdShutdownChild(k) ==
    /\ pd_kstate[k] = "SHUTDOWN"
    /\ k \in pd_kids
    /\ LET r == PdRemoveChild(pd_kids, pd_state, k)
       IN /\ pd_kids' = r[1]
          /\ pd_state' = r[2]
          /\ pd_hist' = [pd_hist EXCEPT !.raced =
                            @ \/ (r[1] = {} /\ pd_w.pc = "write")]
    /\ pd_kstate' = [pd_kstate EXCEPT ![k] = "NONE"]
    /\ UNCHANGED pd_w

\* sched_loop finds the parent in state SHUTDOWN: shutdown_process.
PdShutdownParent ==
    /\ pd_state = "SHUTDOWN"
    /\ pd_state' = "NONE"
    /\ UNCHANGED <<pd_kids, pd_kstate, pd_w, pd_hist>>

PdOpExit == PdExit /\ UNCHANGED notDone
PdRunReturns == PdReturn /\ UNCHANGED notDone
PdChildrenStart == PdStartChildren /\ UNCHANGED notDone
PdRead == PdEndRead /\ UNCHANGED notDone
PdWrite == PdEndWrite /\ UNCHANGED notDone
PdChildPicked == (\E k \in Kids : PdKidPick(k)) /\ UNCHANGED notDone
PdChildEnds == (\E k \in Kids : PdKidEnd(k)) /\ UNCHANGED notDone
PdChildShutdown == (\E k \in Kids : PdShutdownChild(k)) /\ UNCHANGED notDone
PdParentShutdown == PdShutdownParent /\ UNCHANGED notDone

(***************************************************************************)
(* The process table: twk_create_process, twk_get_process (twk.c)          *)
(*                                                                         *)
(* The table has PtSlots slots (MAX_PROCESS in the source), next_pid wraps *)
(* to 1 at PidWrap (1000000 in the source).  Slot 0 holds the process      *)
(* "init", created by twk_start_threads before any other; the other        *)
(* processes are created by running processes, from worker threads.        *)
(* TWK_PS_NONE is the first enumerator, the value memset writes.           *)
(***************************************************************************)
PtSlots == 2
PidWrap == 5
MaxNextPid == 8
PtThreads == 2

PtTable == 0 .. (PtSlots - 1)
PtCallers == 1 .. PtThreads
PtNoSlot == -1
PtRoot == 0

\* twk_create_process, the loop under pid_lock: <<slot, pid, next_pid>>
\* after i slots have been tried, PtNoSlot when the table is full.
RECURSIVE PtScan(_, _, _)
PtScan(state, np, i) ==
    IF i = PtSlots THEN << PtNoSlot, -1, np >>
    ELSE IF state[np % PtSlots] = "NONE"
         THEN << np % PtSlots, np, IF np + 1 = PidWrap THEN 1 ELSE np + 1 >>
         ELSE PtScan(state, np + 1, i + 1)

\* twk_get_process(pid): the slot returned, PtNoSlot for NULL.
twk_get_process(pid) ==
    LET i == pid % PtSlots
    IN IF pt_state[i] # "NONE" /\ pt_pid[i] = pid THEN i ELSE PtNoSlot

PtIdleCall == [pc |-> "idle", slot |-> PtNoSlot, pid |-> -1]

PtInit ==
    /\ pt_state = [i \in PtTable |-> IF i = PtRoot THEN "CREATED" ELSE "NONE"]
    /\ pt_pid = [i \in PtTable |-> 0]
    /\ pt_next = 1
    /\ pt_call = [c \in PtCallers |-> PtIdleCall]
    /\ pt_held = [i \in PtTable |-> {}]

\* An empty table: the state of this part while another is examined.
PtIdle ==
    /\ pt_state = [i \in PtTable |-> "NONE"]
    /\ pt_pid = [i \in PtTable |-> 0]
    /\ pt_next = 0
    /\ pt_call = [c \in PtCallers |-> PtIdleCall]
    /\ pt_held = [i \in PtTable |-> {}]

\* twk_create_process, from pthread_mutex_lock(&pid_lock) to the unlock.
PtClaim(c) ==
    /\ pt_call[c].pc = "idle"
    /\ pt_next < MaxNextPid
    /\ LET r == PtScan(pt_state, pt_next, 0)
       IN /\ pt_next' = r[3]
          /\ IF r[1] = PtNoSlot
             THEN UNCHANGED <<pt_state, pt_call, pt_held>>
             ELSE /\ pt_state' = [pt_state EXCEPT ![r[1]] = "CREATED"]
                  /\ pt_call' = [pt_call EXCEPT ![c] =
                                    [pc |-> "memset", slot |-> r[1], pid |-> r[2]]]
                  /\ pt_held' = [pt_held EXCEPT ![r[1]] = @ \cup {c}]
    /\ UNCHANGED pt_pid

\* memset(proc, 0, sizeof(struct twk_process)), after the unlock.
PtMemset(c) ==
    /\ pt_call[c].pc = "memset"
    /\ pt_state' = [pt_state EXCEPT ![pt_call[c].slot] = "NONE"]
    /\ pt_pid' = [pt_pid EXCEPT ![pt_call[c].slot] = 0]
    /\ pt_call' = [pt_call EXCEPT ![c].pc = "init"]
    /\ UNCHANGED <<pt_next, pt_held>>

\* proc->pid = pid and the other fields.
PtSetPid(c) ==
    /\ pt_call[c].pc = "init"
    /\ pt_pid' = [pt_pid EXCEPT ![pt_call[c].slot] = pt_call[c].pid]
    /\ pt_call' = [pt_call EXCEPT ![c].pc = "final"]
    /\ UNCHANGED <<pt_state, pt_next, pt_held>>

\* proc->state = TWK_PS_CREATED, the last statement; the caller has proc.
PtFinal(c) ==
    /\ pt_call[c].pc = "final"
    /\ pt_state' = [pt_state EXCEPT ![pt_call[c].slot] = "CREATED"]
    /\ pt_call' = [pt_call EXCEPT ![c].pc = "done"]
    /\ UNCHANGED <<pt_pid, pt_next, pt_held>>

\* shutdown_process of a process that was returned to its creator, ending
\* with proc->state = TWK_PS_NONE; proc->pid is left as it is.
PtShutdown(i) ==
    /\ i # PtRoot
    /\ pt_state[i] # "NONE"
    /\ \E c \in PtCallers : pt_call[c].pc = "done" /\ pt_call[c].slot = i
    /\ pt_state' = [pt_state EXCEPT ![i] = "NONE"]
    /\ pt_call' = [c \in PtCallers |->
                      IF pt_call[c].pc = "done" /\ pt_call[c].slot = i
                      THEN PtIdleCall ELSE pt_call[c]]
    /\ pt_held' = [pt_held EXCEPT ![i] =
                      {c \in @ : ~(pt_call[c].pc = "done" /\ pt_call[c].slot = i)}]
    /\ UNCHANGED <<pt_pid, pt_next>>

PtCreateLocked == (\E c \in PtCallers : PtClaim(c)) /\ UNCHANGED notTable
PtCreateMemset == (\E c \in PtCallers : PtMemset(c)) /\ UNCHANGED notTable
PtCreateFields == (\E c \in PtCallers : PtSetPid(c)) /\ UNCHANGED notTable
PtCreateReturns == (\E c \in PtCallers : PtFinal(c)) /\ UNCHANGED notTable
PtProcessShutdown == (\E i \in PtTable : PtShutdown(i)) /\ UNCHANGED notTable

(***************************************************************************)
(* The lifetime of a mailbox FIFO (twk.c)                                  *)
(*                                                                         *)
(* One process with its mailbox proc->mbox, a pointer to a FIFO allocated  *)
(* by fifo_new and released by fifo_delete.  Three threads use it: the     *)
(* worker that runs the process (mbox_read, op_exit), a sender             *)
(* (twk_post_message) and the scheduler (sched_loop, shutdown_process).    *)
(* A thread reads proc->mbox into a register and then uses the FIFO the    *)
(* register points to; where the source holds no lock, other threads run   *)
(* between the two.                                                        *)
(***************************************************************************)
MaxFifos == 3
NullFifo == 0

MfThreads == {"recv", "send", "sched"}
Fifos == 1 .. MaxFifos
MfNoReg == [pc |-> "idle", reg |-> NullFifo]

\* A thread uses the FIFO p points to: what is recorded about the use.
MfUse(t, p) ==
    [mf_hist EXCEPT !.stale = IF p \in mf_freed THEN @ \cup {t} ELSE @,
                    !.null = IF p = NullFifo THEN @ \cup {t} ELSE @]

MfAt(t, pc) == mf_thr[t].pc = pc
MfGoto(t, pc, reg) == mf_thr' = [mf_thr EXCEPT ![t] = [pc |-> pc, reg |-> reg]]

MfInit ==
    /\ mf_state = "WAITING"
    /\ mf_mbox = 1
    /\ mf_freed = {}
    /\ mf_lock = NoLock
    /\ mf_thr = [t \in MfThreads |-> MfNoReg]
    /\ mf_child \in BOOLEAN
    /\ mf_hist = [made |-> 1, stale |-> {}, null |-> {}]

\* No process: the state of this part while another is examined.
MfIdle ==
    /\ mf_state = "NONE"
    /\ mf_mbox = NullFifo
    /\ mf_freed = {}
    /\ mf_lock = NoLock
    /\ mf_thr = [t \in MfThreads |-> MfNoReg]
    /\ mf_child = FALSE
    /\ mf_hist = [made |-> 0, stale |-> {}, null |-> {}]

\* thread_main: a worker picks the process.
MfPick ==
    /\ mf_state = "RUNNABLE"
    /\ MfAt("recv", "idle")
    /\ mf_state' = "RUNNING"
    /\ MfGoto("recv", "run", NullFifo)
    /\ UNCHANGED <<mf_mbox, mf_freed, mf_lock, mf_child, mf_hist>>

\* op_exit.
MfExit ==
    /\ MfAt("recv", "run")
    /\ mf_state = "RUNNING"
    /\ mf_state' = "DONE"
    /\ UNCHANGED <<mf_mbox, mf_freed, mf_lock, mf_thr, mf_child, mf_hist>>

\* mbox_read: proc->mbox is read for fifo_bytes(proc->mbox).
MfReadLoad ==
    /\ MfAt("recv", "run")
    /\ MfGoto("recv", "test", mf_mbox)
    /\ UNCHANGED <<mf_state, mf_mbox, mf_freed, mf_lock, mf_child, mf_hist>>

\* mbox_read: the test of fifo_bytes and size; the mailbox is more than
\* half full, or not.
MfReadTest ==
    /\ MfAt("recv", "test")
    /\ mf_hist' = MfUse("recv", mf_thr["recv"].reg)
    /\ \E grow \in BOOLEAN :
          /\ grow => mf_hist.made < MaxFifos
          /\ MfGoto("recv", IF grow THEN "lock" ELSE "load", NullFifo)
    /\ UNCHANGED <<mf_state, mf_mbox, mf_freed, mf_lock, mf_child>>

\* mbox_read: pthread_mutex_lock(&proc->mbox_lock).
MfReadLock ==
    /\ MfAt("recv", "lock")
    /\ mf_lock = NoLock
    /\ mf_lock' = "recv"
    /\ MfGoto("recv", "resize", NullFifo)
    /\ UNCHANGED <<mf_state, mf_mbox, mf_freed, mf_child, mf_hist>>

\* mbox_read: fifo_new, fifo_read from the old FIFO, fifo_delete(proc->mbox).
MfReadDelete ==
    /\ MfAt("recv", "resize")
    /\ mf_hist' = [MfUse("recv", mf_mbox) EXCEPT !.made = @ + 1]
    /\ mf_freed' = mf_freed \cup ({mf_mbox} \ {NullFifo})
    /\ MfGoto("recv", "assign", mf_hist.made + 1)
    /\ UNCHANGED <<mf_state, mf_mbox, mf_lock, mf_child>>

\* mbox_read: proc->mbox = fifo and the unlock.
MfReadAssign ==
    /\ MfAt("recv", "assign")
    /\ mf_mbox' = mf_thr["recv"].reg
    /\ mf_lock' = NoLock
    /\ MfGoto("recv", "load", NullFifo)
    /\ UNCHANGED <<mf_state, mf_freed, mf_child, mf_hist>>

\* mbox_read: proc->mbox is read for the final fifo_read.
MfReadLoad2 ==
    /\ MfAt("recv", "load")
    /\ MfGoto("recv", "read", mf_mbox)
    /\ UNCHANGED <<mf_state, mf_mbox, mf_freed, mf_lock, mf_child, mf_hist>>

\* mbox_read: fifo_read(proc->mbox, buf, size).
MfReadFifo ==
    /\ MfAt("recv", "read")
    /\ mf_hist' = MfUse("recv", mf_thr["recv"].reg)
    /\ MfGoto("recv", "run", NullFifo)
    /\ UNCHANGED <<mf_state, mf_mbox, mf_freed, mf_lock, mf_child>>

\* thread_main: the activation returns a value; the state written last.
MfEnd ==
    /\ MfAt("recv", "run")
    /\ mf_state' = CASE mf_state = "RUNNING" -> "WAITING"
                     [] mf_state = "DONE" /\ ~mf_child -> "SHUTDOWN"
                     [] OTHER -> mf_state
    /\ MfGoto("recv", "idle", NullFifo)
    /\ UNCHANGED <<mf_mbox, mf_freed, mf_lock, mf_child, mf_hist>>

\* twk_post_message: the tests before the lock.
MfPostTest ==
    /\ MfAt("send", "idle")
    /\ IF mf_mbox = NullFifo \/ mf_state \in {"DONE", "SHUTDOWN", "NONE"}
       THEN UNCHANGED mf_thr
       ELSE MfGoto("send", "lock", NullFifo)
    /\ UNCHANGED <<mf_state, mf_mbox, mf_freed, mf_lock, mf_child, mf_hist>>

\* twk_post_message: pthread_mutex_lock(&proc->mbox_lock).
MfPostLock ==
    /\ MfAt("send", "lock")
    /\ mf_lock = NoLock
    /\ mf_lock' = "send"
    /\ MfGoto("send", "locked", NullFifo)
    /\ UNCHANGED <<mf_state, mf_mbox, mf_freed, mf_child, mf_hist>>

\* twk_post_message, holding the lock: fifo_room and fifo_write when
\* proc->mbox is not NULL, else the log line with fifo_bytes(proc->mbox);
\* the unlock.
MfPostWrite ==
    /\ MfAt("send", "locked")
    /\ mf_hist' = MfUse("send", mf_mbox)
    /\ mf_lock' = NoLock
    /\ \E ok \in {mf_mbox # NullFifo, FALSE} :
          MfGoto("send", IF ok THEN "wake" ELSE "idle", NullFifo)
    /\ UNCHANGED <<mf_state, mf_mbox, mf_freed, mf_child>>

\* twk_post_message: twk_sched(proc, true) when the process is WAITING.
MfPostWake ==
    /\ MfAt("send", "wake")
    /\ mf_state' = IF mf_state = "WAITING" THEN "RUNNABLE" ELSE mf_state
    /\ MfGoto("send", "idle", NullFifo)
    /\ UNCHANGED <<mf_mbox, mf_freed, mf_lock, mf_child, mf_hist>>

\* sched_loop: the tests of proc->state for one slot.
MfLoopState ==
    /\ MfAt("sched", "idle")
    /\ mf_state \in {"SHUTDOWN", "WAITING"}
    /\ MfGoto("sched", IF mf_state = "SHUTDOWN" THEN "shutdown" ELSE "poll", NullFifo)
    /\ UNCHANGED <<mf_state, mf_mbox, mf_freed, mf_lock, mf_child, mf_hist>>

\* sched_loop: proc->mbox is read and tested.
MfLoopLoad ==
    /\ MfAt("sched", "poll")
    /\ MfGoto("sched", IF mf_mbox = NullFifo THEN "idle" ELSE "deref", mf_mbox)
    /\ UNCHANGED <<mf_state, mf_mbox, mf_freed, mf_lock, mf_child, mf_hist>>

\* sched_loop: proc->mbox->rpos != proc->mbox->wpos, and twk_sched(proc,
\* true) when they differ.
MfLoopDeref ==
    /\ MfAt("sched", "deref")
    /\ mf_hist' = MfUse("sched", mf_thr["sched"].reg)
    /\ \E differ \in BOOLEAN :
          mf_state' = IF differ /\ mf_state = "WAITING" THEN "RUNNABLE" ELSE mf_state
    /\ MfGoto("sched", "idle", NullFifo)
    /\ UNCHANGED <<mf_mbox, mf_freed, mf_lock, mf_child>>

\* shutdown_process: under mbox_lock, fifo_delete(proc->mbox) and
\* proc->mbox = NULL.
MfShutdownMbox ==
    /\ MfAt("sched", "shutdown")
    /\ mf_lock = NoLock
    /\ mf_freed' = mf_freed \cup ({mf_mbox} \ {NullFifo})
    /\ mf_mbox' = NullFifo
    /\ MfGoto("sched", "none", NullFifo)
    /\ UNCHANGED <<mf_state, mf_lock, mf_child, mf_hist>>

\* shutdown_process: proc->state = TWK_PS_NONE, the last statement.
MfShutdownState ==
    /\ MfAt("sched", "none")
    /\ mf_state' = "NONE"
    /\ MfGoto("sched", "idle", NullFifo)
    /\ UNCHANGED <<mf_mbox, mf_freed, mf_lock, mf_child, mf_hist>>

\* sched_loop shuts down the last child of the process: remove_child.
MfLastChild ==
    /\ MfAt("sched", "idle")
    /\ mf_child
    /\ mf_child' = FALSE
    /\ mf_state' = CASE mf_state = "PENDING" -> "WAITING"
                     [] mf_state = "DONE" -> "SHUTDOWN"
                     [] OTHER -> mf_state
    /\ UNCHANGED <<mf_mbox, mf_freed, mf_lock, mf_thr, mf_hist>>

MfWorkerPick == MfPick /\ UNCHANGED notFree
MfOpExit == MfExit /\ UNCHANGED notFree
MfMboxReadLoad == MfReadLoad /\ UNCHANGED notFree
MfMboxReadTest == MfReadTest /\ UNCHANGED notFree
MfMboxReadLock == MfReadLock /\ UNCHANGED notFree
MfMboxReadDelete == MfReadDelete /\ UNCHANGED notFree
MfMboxReadAssign == MfReadAssign /\ UNCHANGED notFree
MfMboxReadLoad2 == MfReadLoad2 /\ UNCHANGED notFree
MfMboxReadFifo == MfReadFifo /\ UNCHANGED notFree
MfWorkerEnd == MfEnd /\ UNCHANGED notFree
MfSendTest == MfPostTest /\ UNCHANGED notFree
MfSendLock == MfPostLock /\ UNCHANGED notFree
MfSendWrite == MfPostWrite /\ UNCHANGED notFree
MfSendWake == MfPostWake /\ UNCHANGED notFree
MfSchedState == MfLoopState /\ UNCHANGED notFree
MfSchedLoad == MfLoopLoad /\ UNCHANGED notFree
MfSchedDeref == MfLoopDeref /\ UNCHANGED notFree
MfSchedShutdownMbox == MfShutdownMbox /\ UNCHANGED notFree
MfSchedShutdownState == MfShutdownState /\ UNCHANGED notFree
MfSchedLastChild == MfLastChild /\ UNCHANGED notFree

(***************************************************************************)
(* The specifications                                                      *)
(***************************************************************************)
Init ==
    /\ \E p \in Programs : VmNew(p)
    /\ ndebug \in BOOLEAN
    /\ SubIdle
    /\ GcIdle
    /\ MutIdle
    /\ SymIdle
    /\ PortIdle
    /\ SchedIdle
    /\ FifoIdle
    /\ MboxIdle
    /\ ReadIdle
    /\ DictIdle
    /\ EnvIdle
    /\ OutIdle
    /\ InIdle
    /\ FamIdle
    /\ ArrIdle
    /\ WkIdle
    /\ PdIdle
    /\ PtIdle
    /\ MfIdle

Next ==
    \/ LispVmRun
    \/ Load
    \/ LispEvalCore
    \/ EvalExpr
    \/ EvalArgs
    \/ EvalList
    \/ LispApply
    \/ ApplyProcedure
    \/ EvalProcedureBody
    \/ OpIf
    \/ OpSet
    \/ OpDefine
    \/ OpReturn
    \/ OpCatch
    \/ OpWithInput
    \/ OpWithOutput
    \/ ApplyNative
    \/ OpListProcesses
    \/ LispTry

Spec == Init /\ [][Next]_vars

SubInit ==
    /\ sub_in \in [s : StringsUpTo(MaxChars), start : -1 .. MaxIndex,
                   hasEnd : BOOLEAN, end : -1 .. MaxIndex]
    /\ sub_res = NoResult
    /\ EvalIdle
    /\ GcIdle
    /\ MutIdle
    /\ SymIdle
    /\ PortIdle
    /\ SchedIdle
    /\ FifoIdle
    /\ MboxIdle
    /\ ReadIdle
    /\ DictIdle
    /\ EnvIdle
    /\ OutIdle
    /\ InIdle
    /\ FamIdle
    /\ ArrIdle
    /\ WkIdle
    /\ PdIdle
    /\ PtIdle
    /\ MfIdle

SubNext == OpSubstring

SpecSubstring == SubInit /\ [][SubNext]_vars

GcStart ==
    /\ GcInit
    /\ EvalIdle
    /\ SubIdle
    /\ MutIdle
    /\ SymIdle
    /\ PortIdle
    /\ SchedIdle
    /\ FifoIdle
    /\ MboxIdle
    /\ ReadIdle
    /\ DictIdle
    /\ EnvIdle
    /\ OutIdle
    /\ InIdle
    /\ FamIdle
    /\ ArrIdle
    /\ WkIdle
    /\ PdIdle
    /\ PtIdle
    /\ MfIdle

GcNext ==
    \/ GcPushNumber
    \/ GcSymbol
    \/ GcCons
    \/ GcPop
    \/ GcDefineVar
    \/ GcSetVariable
    \/ GcOpLambda
    \/ GcEnter
    \/ GcLeave
    \/ GcClearEnv
    \/ GcLastEval
    \/ GcKeepAlive
    \/ GcRead
    \/ LispVmGc

SpecGC == GcStart /\ [][GcNext]_vars

MutStart ==
    /\ MutInit
    /\ EvalIdle
    /\ SubIdle
    /\ GcIdle
    /\ SymIdle
    /\ PortIdle
    /\ SchedIdle
    /\ FifoIdle
    /\ MboxIdle
    /\ ReadIdle
    /\ DictIdle
    /\ EnvIdle
    /\ OutIdle
    /\ InIdle
    /\ FamIdle
    /\ ArrIdle
    /\ WkIdle
    /\ PdIdle
    /\ PtIdle
    /\ MfIdle

MutNext ==
    \/ ArrayGet
    \/ ArraySet
    \/ ArrayPop
    \/ ArrayPush
    \/ DictGet
    \/ DictSet
    \/ DictUnset
    \/ Clear
    \/ BufferGet
    \/ BufferSet
    \/ OpenOutputBuffer
    \/ WriteString
    \/ GetVar
    \/ SetVar
    \/ DefVar

SpecMut == MutStart /\ [][MutNext]_vars

SymBegin ==
    /\ SymInit
    /\ EvalIdle
    /\ SubIdle
    /\ GcIdle
    /\ MutIdle
    /\ PortIdle
    /\ SchedIdle
    /\ FifoIdle
    /\ MboxIdle
    /\ ReadIdle
    /\ DictIdle
    /\ EnvIdle
    /\ OutIdle
    /\ InIdle
    /\ FamIdle
    /\ ArrIdle
    /\ WkIdle
    /\ PdIdle
    /\ PtIdle
    /\ MfIdle

SymNext ==
    \/ MakeSymbol
    \/ SymLoadFile
    \/ SymSpawn
    \/ SymGc

SpecSym == SymBegin /\ [][SymNext]_vars

PortStart ==
    /\ PortInit
    /\ EvalIdle
    /\ SubIdle
    /\ GcIdle
    /\ MutIdle
    /\ SymIdle
    /\ SchedIdle
    /\ FifoIdle
    /\ MboxIdle
    /\ ReadIdle
    /\ DictIdle
    /\ EnvIdle
    /\ OutIdle
    /\ InIdle
    /\ FamIdle
    /\ ArrIdle
    /\ WkIdle
    /\ PdIdle
    /\ PtIdle
    /\ MfIdle

PortNext ==
    \/ PortPuts
    \/ PortFlush
    \/ PortClose
    \/ PortFinalize

SpecPort == PortStart /\ [][PortNext]_vars

SchedStart ==
    /\ SchedInit
    /\ EvalIdle
    /\ SubIdle
    /\ GcIdle
    /\ MutIdle
    /\ SymIdle
    /\ PortIdle
    /\ FifoIdle
    /\ MboxIdle
    /\ ReadIdle
    /\ DictIdle
    /\ EnvIdle
    /\ OutIdle
    /\ InIdle
    /\ FamIdle
    /\ ArrIdle
    /\ WkIdle
    /\ PdIdle
    /\ PtIdle
    /\ MfIdle

SchedNext ==
    \/ TwkSchedCheck
    \/ TwkSchedSet
    \/ TwkPostMessage
    \/ TwkPostMessageWake
    \/ TwkRunLoop
    \/ ThreadMainFetch
    \/ ThreadMainRun
    \/ ThreadMainEnd

SpecSched == SchedStart /\ [][SchedNext]_vars

FifoStart ==
    /\ fifo_new
    /\ EvalIdle
    /\ SubIdle
    /\ GcIdle
    /\ MutIdle
    /\ SymIdle
    /\ PortIdle
    /\ SchedIdle
    /\ MboxIdle
    /\ ReadIdle
    /\ DictIdle
    /\ EnvIdle
    /\ OutIdle
    /\ InIdle
    /\ FamIdle
    /\ ArrIdle
    /\ WkIdle
    /\ PdIdle
    /\ PtIdle
    /\ MfIdle

FifoNext ==
    \/ FifoWriteBegin
    \/ FifoWriteAvail
    \/ FifoWriteByte
    \/ FifoWriteWpos
    \/ FifoWriteWposMask
    \/ FifoReadBegin
    \/ FifoReadAvail
    \/ FifoReadByte
    \/ FifoReadRpos
    \/ FifoReadRposMask

SpecFifo == FifoStart /\ [][FifoNext]_vars

MboxStart ==
    /\ MboxInit
    /\ EvalIdle
    /\ SubIdle
    /\ GcIdle
    /\ MutIdle
    /\ SymIdle
    /\ PortIdle
    /\ SchedIdle
    /\ FifoIdle
    /\ ReadIdle
    /\ DictIdle
    /\ EnvIdle
    /\ OutIdle
    /\ InIdle
    /\ FamIdle
    /\ ArrIdle
    /\ WkIdle
    /\ PdIdle
    /\ PtIdle
    /\ MfIdle

MboxNext ==
    \/ MboxPostMessage
    \/ MboxPostReturn
    \/ MboxBeginMessage
    \/ MboxAddMessage
    \/ MboxEndMessage
    \/ MboxRead
    \/ MboxReadGrow
    \/ MboxReadBytes
    \/ MboxThreadRun
    \/ MboxThreadEnd
    \/ MboxSchedLoop

SpecMbox == MboxStart /\ [][MboxNext]_vars

ReadStart ==
    /\ ReadInit
    /\ EvalIdle
    /\ SubIdle
    /\ GcIdle
    /\ MutIdle
    /\ SymIdle
    /\ PortIdle
    /\ SchedIdle
    /\ FifoIdle
    /\ MboxIdle
    /\ DictIdle
    /\ EnvIdle
    /\ OutIdle
    /\ InIdle
    /\ FamIdle
    /\ ArrIdle
    /\ WkIdle
    /\ PdIdle
    /\ PtIdle
    /\ MfIdle

ReadNext ==
    \/ LispRead
    \/ LispPortPrint
    \/ LispReadBack

SpecRead == ReadStart /\ [][ReadNext]_vars

DictStart ==
    /\ EvalIdle
    /\ SubIdle
    /\ GcIdle
    /\ MutIdle
    /\ SymIdle
    /\ PortIdle
    /\ SchedIdle
    /\ FifoIdle
    /\ MboxIdle
    /\ ReadIdle
    /\ DictInit
    /\ EnvIdle
    /\ OutIdle
    /\ InIdle
    /\ FamIdle
    /\ ArrIdle
    /\ WkIdle
    /\ PdIdle
    /\ PtIdle
    /\ MfIdle

DictNext ==
    \/ ApplyDict
    \/ ApplyDictSet
    \/ ApplyDictUnset
    \/ ApplyDictGet
    \/ ApplyExists
    \/ ApplyGet
    \/ ApplyClear

SpecDict == DictStart /\ [][DictNext]_vars

EnvStart ==
    /\ EvalIdle
    /\ SubIdle
    /\ GcIdle
    /\ MutIdle
    /\ SymIdle
    /\ PortIdle
    /\ SchedIdle
    /\ FifoIdle
    /\ MboxIdle
    /\ ReadIdle
    /\ DictIdle
    /\ EnvInit
    /\ OutIdle
    /\ InIdle
    /\ FamIdle
    /\ ArrIdle
    /\ WkIdle
    /\ PdIdle
    /\ PtIdle
    /\ MfIdle

EnvNext ==
    \/ EnvDefine
    \/ EnvDefConst
    \/ EnvSet
    \/ EnvEnter
    \/ EnvLeave

SpecEnv == EnvStart /\ [][EnvNext]_vars

\* The evaluator on the programs that nest without end.
DepthPrograms == {[kind |-> "depth", d |-> d] : d \in 0 .. MaxNest}

DepthInit ==
    /\ \E p \in DepthPrograms : VmNew(p)
    /\ ndebug \in BOOLEAN
    /\ SubIdle
    /\ GcIdle
    /\ MutIdle
    /\ SymIdle
    /\ PortIdle
    /\ SchedIdle
    /\ FifoIdle
    /\ MboxIdle
    /\ ReadIdle
    /\ DictIdle
    /\ EnvIdle
    /\ OutIdle
    /\ InIdle
    /\ FamIdle
    /\ ArrIdle
    /\ WkIdle
    /\ PdIdle
    /\ PtIdle
    /\ MfIdle

DepthNext ==
    \/ LispVmRun
    \/ Load
    \/ LispEvalCore
    \/ EvalExpr
    \/ EvalArgs
    \/ EvalList
    \/ LispApply
    \/ ApplyProcedure
    \/ EvalProcedureBody
    \/ OpIf
    \/ OpDefine
    \/ OpCatch

SpecDepth == DepthInit /\ [][DepthNext]_vars

OutStart ==
    /\ EvalIdle
    /\ SubIdle
    /\ GcIdle
    /\ MutIdle
    /\ SymIdle
    /\ PortIdle
    /\ SchedIdle
    /\ FifoIdle
    /\ MboxIdle
    /\ ReadIdle
    /\ DictIdle
    /\ EnvIdle
    /\ OutInit
    /\ InIdle
    /\ FamIdle
    /\ ArrIdle
    /\ WkIdle
    /\ PdIdle
    /\ PtIdle
    /\ MfIdle

OutNext ==
    \/ OutPutc
    \/ OutPuts
    \/ OutPutBytes
    \/ OutPrintf
    \/ OutFlush
    \/ OutClose

SpecOut == OutStart /\ [][OutNext]_vars

InStart ==
    /\ EvalIdle
    /\ SubIdle
    /\ GcIdle
    /\ MutIdle
    /\ SymIdle
    /\ PortIdle
    /\ SchedIdle
    /\ FifoIdle
    /\ MboxIdle
    /\ ReadIdle
    /\ DictIdle
    /\ EnvIdle
    /\ OutIdle
    /\ InInit
    /\ FamIdle
    /\ ArrIdle
    /\ WkIdle
    /\ PdIdle
    /\ PtIdle
    /\ MfIdle

InNext ==
    \/ InFill
    \/ InGetc
    \/ InUnget
    \/ InDrain
    \/ InSeek
    \/ InClose
    \/ InClear

SpecIn == InStart /\ [][InNext]_vars

\* The evaluator on the programs that apply f to too few, enough and too
\* many arguments.
ArgPrograms ==
    {[kind |-> "args", np |-> np, no |-> no, rest |-> r, na |-> na] :
        np \in 0 .. MaxPositional, no \in 0 .. MaxOptional, r \in BOOLEAN,
        na \in 0 .. MaxPositional + MaxOptional + 1}

ArgsInit ==
    /\ \E p \in ArgPrograms : VmNew(p)
    /\ ndebug \in BOOLEAN
    /\ SubIdle
    /\ GcIdle
    /\ MutIdle
    /\ SymIdle
    /\ PortIdle
    /\ SchedIdle
    /\ FifoIdle
    /\ MboxIdle
    /\ ReadIdle
    /\ DictIdle
    /\ EnvIdle
    /\ OutIdle
    /\ InIdle
    /\ FamIdle
    /\ ArrIdle
    /\ WkIdle
    /\ PdIdle
    /\ PtIdle
    /\ MfIdle

ArgsNext ==
    \/ LispVmRun
    \/ Load
    \/ LispEvalCore
    \/ EvalExpr
    \/ EvalArgs
    \/ EvalList
    \/ LispApply
    \/ ApplyProcedure
    \/ EvalProcedureBody
    \/ OpDefine

SpecArgs == ArgsInit /\ [][ArgsNext]_vars

FamStart ==
    /\ EvalIdle
    /\ SubIdle
    /\ GcIdle
    /\ MutIdle
    /\ SymIdle
    /\ PortIdle
    /\ SchedIdle
    /\ FifoIdle
    /\ MboxIdle
    /\ ReadIdle
    /\ DictIdle
    /\ EnvIdle
    /\ OutIdle
    /\ InIdle
    /\ FamInit
    /\ ArrIdle
    /\ WkIdle
    /\ PdIdle
    /\ PtIdle
    /\ MfIdle

FamNext ==
    \/ FamFetch
    \/ FamProcessInit
    \/ FamSpawn
    \/ FamWait
    \/ FamExit
    \/ FamReceive
    \/ FamReturn
    \/ FamStartChildren
    \/ FamEnd
    \/ FamShutdown
    \/ FamSchedLoop
    \/ FamPost

SpecFam == FamStart /\ [][FamNext]_vars

ArrStart ==
    /\ EvalIdle
    /\ SubIdle
    /\ GcIdle
    /\ MutIdle
    /\ SymIdle
    /\ PortIdle
    /\ SchedIdle
    /\ FifoIdle
    /\ MboxIdle
    /\ ReadIdle
    /\ DictIdle
    /\ EnvIdle
    /\ OutIdle
    /\ InIdle
    /\ FamIdle
    /\ ArrInit
    /\ WkIdle
    /\ PdIdle
    /\ PtIdle
    /\ MfIdle

ArrNext ==
    \/ ArrArray
    \/ ArrMkarray
    \/ ArrDict
    \/ ArrMkdict
    \/ ArrPush
    \/ ArrPop
    \/ ArrSet
    \/ ArrDictSet

SpecArr == ArrStart /\ [][ArrNext]_vars

WkStart ==
    /\ WkInit
    /\ EvalIdle
    /\ SubIdle
    /\ GcIdle
    /\ MutIdle
    /\ SymIdle
    /\ PortIdle
    /\ SchedIdle
    /\ FifoIdle
    /\ MboxIdle
    /\ ReadIdle
    /\ DictIdle
    /\ EnvIdle
    /\ OutIdle
    /\ InIdle
    /\ FamIdle
    /\ ArrIdle
    /\ PdIdle
    /\ PtIdle
    /\ MfIdle

WkNext ==
    \/ WkWorkerLock
    \/ WkWorkerFind
    \/ WkWorkerWait
    \/ WkWorkerSpurious
    \/ WkWorkerReceive
    \/ WkWorkerEnd
    \/ WkPost
    \/ WkPosted
    \/ WkScan
    \/ WkTest
    \/ WkAssign
    \/ WkSignal

\* Every thread that can take its next step takes it: the workers up to the
\* call of run_vm, the callers of twk_sched, the scan of sched_loop.  How
\* long an activation runs is up to the process, when a message is posted
\* up to the sender.
WkThreadsRun ==
    /\ \A w \in Workers :
          /\ WF_vars(WkLock(w) /\ UNCHANGED notWake)
          /\ WF_vars(WkFind(w) /\ UNCHANGED notWake)
          /\ WF_vars(WkWait(w) /\ UNCHANGED notWake)
    /\ \A c \in Callers :
          /\ WF_vars(WkSchedTest(c) /\ UNCHANGED notWake)
          /\ WF_vars(WkSchedAssign(c) /\ UNCHANGED notWake)
          /\ WF_vars(WkSchedSignal(c) /\ UNCHANGED notWake)
    /\ WF_vars(WkPosted)
    /\ WF_vars(WkScan)

\* Every activation returns.
WkActivationsEnd == \A w \in Workers : WF_vars(WkEnd(w) /\ UNCHANGED notWake)

SpecWake == WkStart /\ [][WkNext]_vars /\ WkThreadsRun

SpecWakeEnd == WkStart /\ [][WkNext]_vars /\ WkThreadsRun /\ WkActivationsEnd

PdStart ==
    /\ PdInit
    /\ EvalIdle
    /\ SubIdle
    /\ GcIdle
    /\ MutIdle
    /\ SymIdle
    /\ PortIdle
    /\ SchedIdle
    /\ FifoIdle
    /\ MboxIdle
    /\ ReadIdle
    /\ DictIdle
    /\ EnvIdle
    /\ OutIdle
    /\ InIdle
    /\ FamIdle
    /\ ArrIdle
    /\ WkIdle
    /\ PtIdle
    /\ MfIdle

PdNext ==
    \/ PdOpExit
    \/ PdRunReturns
    \/ PdChildrenStart
    \/ PdRead
    \/ PdWrite
    \/ PdChildPicked
    \/ PdChildEnds
    \/ PdChildShutdown
    \/ PdParentShutdown

\* The worker goes on to the end of thread_main once run_vm has returned;
\* workers pick runnable children; sched_loop scans the table for ever.
PdThreadsRun ==
    /\ WF_vars(PdChildrenStart)
    /\ WF_vars(PdRead)
    /\ WF_vars(PdWrite)
    /\ WF_vars(PdChildPicked)
    /\ WF_vars(PdChildShutdown)
    /\ WF_vars(PdParentShutdown)

SpecDone == PdStart /\ [][PdNext]_vars /\ PdThreadsRun

PtStart ==
    /\ PtInit
    /\ EvalIdle
    /\ SubIdle
    /\ GcIdle
    /\ MutIdle
    /\ SymIdle
    /\ PortIdle
    /\ SchedIdle
    /\ FifoIdle
    /\ MboxIdle
    /\ ReadIdle
    /\ DictIdle
    /\ EnvIdle
    /\ OutIdle
    /\ InIdle
    /\ FamIdle
    /\ ArrIdle
    /\ WkIdle
    /\ PdIdle
    /\ MfIdle

PtNext ==
    \/ PtCreateLocked
    \/ PtCreateMemset
    \/ PtCreateFields
    \/ PtCreateReturns
    \/ PtProcessShutdown

SpecTable == PtStart /\ [][PtNext]_vars

MfStart ==
    /\ MfInit
    /\ EvalIdle
    /\ SubIdle
    /\ GcIdle
    /\ MutIdle
    /\ SymIdle
    /\ PortIdle
    /\ SchedIdle
    /\ FifoIdle
    /\ MboxIdle
    /\ ReadIdle
    /\ DictIdle
    /\ EnvIdle
    /\ OutIdle
    /\ InIdle
    /\ FamIdle
    /\ ArrIdle
    /\ WkIdle
    /\ PdIdle
    /\ PtIdle

MfNext ==
    \/ MfWorkerPick
    \/ MfOpExit
    \/ MfMboxReadLoad
    \/ MfMboxReadTest
    \/ MfMboxReadLock
    \/ MfMboxReadDelete
    \/ MfMboxReadAssign
    \/ MfMboxReadLoad2
    \/ MfMboxReadFifo
    \/ MfWorkerEnd
    \/ MfSendTest
    \/ MfSendLock
    \/ MfSendWrite
    \/ MfSendWake
    \/ MfSchedState
    \/ MfSchedLoad
    \/ MfSchedDeref
    \/ MfSchedShutdownMbox
    \/ MfSchedShutdownState
    \/ MfSchedLastChild

SpecFree == MfStart /\ [][MfNext]_vars

(***************************************************************************)
(* Properties of the evaluator                                             *)
(***************************************************************************)
RECURSIVE Reverse(_)
Reverse(xs) == IF xs = <<>> THEN <<>> ELSE Reverse(Tail(xs)) \o <<Head(xs)>>

\* The numbers printed by the calls of a pattern, first expression first.
RECURSIVE CallsFrom(_, _)
CallsFrom(pat, i) ==
    IF i > Len(pat) THEN <<>>
    ELSE (IF pat[i] = "call" THEN <<Num(i)>> ELSE <<>>) \o CallsFrom(pat, i + 1)
Calls(pat) == CallsFrom(pat, 1)

\* C1: once a (catch body...) form has been evaluated -- the body finished,
\* threw, or raised an error any number of procedure calls down -- the value
\* stack holds what it held below the form plus the one result, and vm->env
\* is the environment that was current when the evaluation of the form began.
C1_CatchRestoresStackAndEnv ==
    hist.form.n > 0 =>
        /\ hist.form.d1 = hist.form.d0 + 1
        /\ hist.form.e1 = hist.form.e0

\* An error raised MaxNest procedure calls below the catch was caught and the
\* catch form has returned.
C1_Witness ==
    /\ prog.kind = "catch" /\ prog.how = "internal" /\ prog.depth = MaxNest
    /\ hist.form.n = 1 /\ hist.catch.how = 1
    /\ hist.raised.code = 1

\* C3: while a self-tail-recursive procedure iterates N times, the value
\* stack, eval_level and the C stack stay within bounds that do not depend
\* on N, and the max-depth error is not raised.
C3_TailCallBounded ==
    prog.kind = "loop" =>
        /\ Len(stack) <= 30
        /\ eval_level <= 5
        /\ Len(frames) <= 22
        /\ err # "exceeding max depth"

\* The loop has run MaxIter iterations and printed its result.
C3_Witness ==
    /\ prog.kind = "loop" /\ prog.n = MaxIter /\ ~prog.ret
    /\ status = "done" /\ out = <<Num(MaxIter)>>

\* What the catch of a catch program must yield.
CatchExpected(p) ==
    CASE p.how = "normal" -> Num(p.v)
      [] p.how = "throw" -> Num(p.v)
      [] p.how = "error" -> Cons(Sym("error"), L(<<Str("e"), Num(p.v)>>))
      [] p.how = "internal" -> Cons(Sym("error"), NIL)

\* C4: the value of a catch is the pair (error . payload) when its body
\* raised an internal error with that payload, exactly v when its body
\* executed (throw v), and the value of the last body expression when the
\* body finished.
C4_CatchValue ==
    hist.catch.n > 0 =>
        /\ hist.catch.how = 1 =>
              /\ hist.catch.raised.code = 1
              /\ hist.catch.value = Cons(Sym("error"), hist.catch.raised.obj)
        /\ hist.catch.how = 2 =>
              /\ hist.catch.raised.code = 2
              /\ hist.catch.value = hist.catch.raised.obj
        /\ hist.catch.how = 0 => hist.catch.value = hist.catch.body
        /\ prog.kind = "catch" => hist.catch.value = CatchExpected(prog)

\* (error "e" v) was raised MaxNest calls below the catch, which returned the
\* tagged pair with the payload ("e" v).
C4_Witness ==
    /\ prog.kind = "catch" /\ prog.how = "error" /\ prog.depth = MaxNest
    /\ hist.catch.n = 1 /\ hist.catch.how = 1
    /\ hist.catch.raised.obj # NIL
    /\ status = "done"

\* C5: a set! or define that names a constant symbol fails with an error
\* (which the enclosing catch receives) and leaves the bindings of every
\* environment as they were: here, x bound to 1 in the root environment.
C5_ConstSymbolRejected ==
    (prog.kind = "const" /\ status # "running") =>
        /\ status = "done"
        /\ hist.catch.n = 1 /\ hist.catch.how = 1
        /\ Len(envs) = 1
        /\ envs[1].bindings = <<Binding("x", Num(1))>>
        /\ out = <<Num(1)>>

\* C8 as stated: the arguments of an application are evaluated left to
\* right, the expressions of a begin or of a body top to bottom.
C8_LeftToRight ==
    (prog.kind = "order" /\ status = "done") => out = Calls(prog.pat)

\* C8: the arguments of an application are evaluated right to left, the last
\* argument first (constants are not evaluated at all); the expressions of
\* a begin or of a procedure body are evaluated top to bottom.
C8_ArgsRightToLeft ==
    (prog.kind = "order" /\ status = "done") =>
        out = IF prog.shape = "args" THEN Reverse(Calls(prog.pat))
              ELSE Calls(prog.pat)

\* An application of MaxArgs arguments, each with a side effect, is over.
C8_Witness ==
    /\ prog.kind = "order" /\ prog.shape = "args"
    /\ Len(prog.pat) = MaxArgs /\ Len(Calls(prog.pat)) = MaxArgs
    /\ status = "done" /\ Len(out) = MaxArgs

\* C10: for every string and all integers start and end, substring either
\* fails with an error or returns the bytes s[start, end') with
\* 0 <= start <= end' <= length(s), start not inside a multi-byte sequence
\* and end' on a character boundary; it never copies from outside s and never
\* computes a negative length.
C10_SubstringInBounds ==
    sub_res.kind # "none" =>
        \/ sub_res.kind = "error"
        \/ /\ sub_res.kind = "string"
           /\ 0 <= sub_res.from
           /\ sub_res.n >= 0
           /\ sub_res.from + sub_res.n <= Len(sub_in.s)
           /\ ~IsContinuation(ByteAt(sub_in.s, sub_res.from))
           /\ ~IsContinuation(ByteAt(sub_in.s, sub_res.from + sub_res.n))

(***************************************************************************)
(* Properties of the garbage collector                                     *)
(***************************************************************************)
\* The reachable dictionaries that have a lookup table.
HashedDicts ==
    {o \in Reachable(g_heap, g_vm) :
         g_heap[o].type = "dict" /\ g_heap[o].refs[1] > 0}

\* C2: a garbage collection never destroys an object that is reachable from
\* the root set of the VM: no object reachable from the stack, the current
\* and the root environment, the ports, the token buffer, the last value,
\* the symbol table, the source files or the keep-alive pool has been
\* deleted.
C2_GcKeepsReachable == Reachable(g_heap, g_vm) \cap g_freed = {}

\* A collection has deleted garbage while a dictionary with a lookup table
\* and an object held by vm->last_eval were reachable.
C2_Witness ==
    /\ g_freed # {}
    /\ HashedDicts # {}
    /\ g_vm.last_eval > 0

(***************************************************************************)
(* Immutable objects and foreign objects                                   *)
(***************************************************************************)
\* The primitives of the last outcome that change an array or a buffer.
ArrayBufferMutators ==
    {"array-set!", "array-push!", "array-pop!", "clear", "buffer-setu8!"}

\* The target of the last outcome is as it was before the call.
TargetUnchanged ==
    IF m_last.target \in DOMAIN m_objs
    THEN m_objs[m_last.target].items = m_last.before
    ELSE \A i \in DOMAIN m_env :
             m_env[i].vm = m_last.owner => m_env[i].bindings = m_last.before

\* C6: every mutation primitive (array set, push, pop and clear; buffer set
\* and clear) applied to an immutable array or buffer, the reader's literals
\* included, fails with an error and leaves the contents and the length of
\* its target unchanged.
C6_ImmutableRejected ==
    (/\ m_last.op \in ArrayBufferMutators
     /\ m_last.target \in DOMAIN m_objs
     /\ m_objs[m_last.target].type \in {"array", "buffer"}
     /\ m_last.is_const)
        => m_last.result = "error" /\ TargetUnchanged

\* C7: a mutating operation on an object or a binding whose owner is not
\* the current VM fails with an error and leaves it unmodified, and a read
\* of a foreign object is never refused for its owner.
C7_ForeignRejected ==
    /\ (m_last.kind = "mutate" /\ m_last.owner = "parent")
           => m_last.result = "error" /\ TargetUnchanged
    /\ (m_last.kind = "read" /\ m_last.owner = "parent")
           => m_last.msg \notin {"Can not modify foreign object",
                                 "Can not modify variable in foreign environment"}

(***************************************************************************)
(* Symbols are interned                                                    *)
(***************************************************************************)
\* C9: within one VM, the symbols lisp_make_symbol returns for two names
\* are the same object if and only if the names are the same, whether the
\* name was found in the static table, in the VM's own dictionary (searched
\* linearly or through its hashed lookup table), in the parent's
\* dictionary, or was new; and no symbol returned is deleted by gc.
C9_SymbolIdentity ==
    /\ \A a, b \in sy_got :
           a.vm = b.vm => ((a.obj = b.obj) <=> (a.name = b.name))
    /\ \A a \in sy_got : a.obj \notin sy_freed

\* A VM has found a name in its own hashed table behind the entry of
\* another name with the same slot, the child has found a name in the
\* parent's table and a name in the static table, and one VM has got one
\* name in two ways.
C9_Witness ==
    /\ \E a \in sy_got : a.via = "own" /\ a.probes > 0
    /\ \E a \in sy_got : a.vm = "child" /\ a.via = "parent"
    /\ \E a \in sy_got : a.vm = "child" /\ a.via = "static"
    /\ \E a, b \in sy_got : a.vm = b.vm /\ a.name = b.name /\ a.via # b.via

(***************************************************************************)
(* Closing a port                                                          *)
(***************************************************************************)
\* C11: over explicit closes followed by finalization, or finalization
\* alone, the close callback of the stream is never invoked twice and has
\* been invoked once when the port is closed or finalized, a close writes
\* the pending output at most once, and a close of a port already closed
\* changes nothing.
C11_CloseIdempotent ==
    /\ p_io.closes <= 1
    /\ ((p_port.closed \/ p_pool = <<>>) /\ HasClose(p_stream.cls))
           => p_io.closes = 1
    /\ p_last.op \in {"close", "gc"} => p_last.flushed <= 1
    /\ (p_last.op \in {"close", "gc"} /\ p_last.closed) => p_last.same
    /\ p_pool = <<>> => p_port.closed /\ ~p_stream.context

\* The port was closed at least twice by the program, output was written
\* to the stream, and the closed port has then been finalized.
C11_Witness ==
    /\ p_calls >= 2
    /\ p_pool = <<>>
    /\ p_last.op = "gc"
    /\ p_last.closed
    /\ p_io.written # <<>>
    /\ p_io.closes = 1

(***************************************************************************)
(* lisp_try                                                                *)
(***************************************************************************)
\* C12: when lisp_try returns, the value stack is as deep as at the call and
\* vm->catch is the trap installed at the call; it returns the object fn
\* left on the stack when fn completed, and NULL when an error or a throw
\* came back to its setjmp.
C12_TryRestores ==
    hist.try.n > 0 =>
        /\ hist.try.d1 = hist.try.d0
        /\ hist.try.c1 = hist.try.c0
        /\ hist.try.jmp = 0 => hist.try.ret = hist.try.left /\ hist.try.ret # NULL
        /\ hist.try.jmp # 0 => hist.try.ret = NULL
        /\ (hist.try.jmp # 0) = (hist.raised.code # 0 /\ hist.try.jmp = hist.raised.code)
        /\ (status \in {"done", "failed"} /\ prog.kind = "try") =>
              /\ Len(stack) = 1
              /\ catch = 0
              /\ (status = "failed") = (hist.try.ret = NULL)

\* list-processes called lisp_try inside a catch, an allocation in
\* list_children failed with objects pushed, and lisp_try returned NULL to a
\* caller that had a trap of its own installed.
C12_Witness ==
    /\ hist.try.n = 1
    /\ hist.try.jmp = 1
    /\ hist.try.ret = NULL
    /\ hist.try.c0 > 0
    /\ hist.try.d0 > 1
    /\ status = "running"

(***************************************************************************)
(* Nested traps                                                            *)
(***************************************************************************)
\* The functions that install a jmp_buf in vm->catch, and the innermost of
\* their activations whose body is executing (0: none).
TrapFns == {"op_catch", "lisp_try", "lisp_vm_run"}
ActiveTraps ==
    {i \in 1 .. Len(frames) : frames[i].fn \in TrapFns /\ frames[i].pc # "start"}
InnermostTrap ==
    IF ActiveTraps = {} THEN 0
    ELSE CHOOSE i \in ActiveTraps : \A j \in ActiveTraps : j <= i

\* The setjmp code with which the form of a process leaves its outer
\* (begin ...) or (catch ...): 0 when it ends normally.
RaiseCode(how) ==
    CASE how = "normal" -> 0 [] how = "throw" -> 2 [] OTHER -> 1
TryEscape(p) ==
    CASE p.inner = "none" /\ p.h1 # "normal" -> RaiseCode(p.h1)
      [] p.inner = "native" /\ p.h1 # "normal" -> 1
      [] OTHER -> RaiseCode(p.h2)

\* C18: vm->catch is at every moment the innermost catch form or lisp_try
\* whose body is still executing, so that a throw or an error is delivered
\* there; once an inner catch has returned, normally or by catching, what
\* the enclosing body raises arrives at the enclosing catch or lisp_try.
C18_InnermostTrap ==
    /\ status = "running" => catch = InnermostTrap
    /\ (prog.kind = "try" /\ status \in {"done", "failed"}) =>
          /\ prog.outer = "begin" => hist.try.jmp = TryEscape(prog)
          /\ prog.outer = "catch" =>
                /\ status = "done"
                /\ hist.try.jmp = 0
                /\ hist.catch.how = TryEscape(prog)
                /\ hist.catch.n = IF prog.inner = "catch" THEN 2 ELSE 1
          /\ TryEscape(prog) = 2 =>
                hist.raised.obj =
                   Num(IF prog.inner = "none" /\ prog.h1 = "throw"
                       THEN prog.v ELSE prog.v + 1)

\* An inner catch caught a throw and returned, a later throw in the body of
\* the enclosing catch arrived at the enclosing catch, and lisp_try, around
\* both, returned normally.
C18_Witness ==
    /\ prog.kind = "try" /\ prog.outer = "catch" /\ prog.inner = "catch"
    /\ prog.h1 = "throw" /\ prog.h2 = "throw"
    /\ status = "done"
    /\ hist.catch.n = 2
    /\ hist.catch.how = 2
    /\ hist.catch.value = Num(prog.v + 1)
    /\ hist.try.jmp = 0

(***************************************************************************)
(* Escapes to the top level                                                *)
(***************************************************************************)
\* Of a line: the index of its first form that raises (0: none), and the
\* number of its forms that are evaluated to the end.
FirstRaise(line) ==
    IF \A i \in 1 .. Len(line) : line[i] = "print" THEN 0
    ELSE CHOOSE i \in 1 .. Len(line) :
            line[i] # "print" /\ \A j \in 1 .. i - 1 : line[j] = "print"
Completed(line) ==
    IF FirstRaise(line) = 0 THEN Len(line) ELSE FirstRaise(line) - 1
RECURSIVE CompletedOf(_)
CompletedOf(lines) ==
    IF lines = <<>> THEN 0 ELSE Completed(Head(lines)) + CompletedOf(Tail(lines))
RaisingLines(lines) == {i \in 1 .. Len(lines) : FirstRaise(lines[i]) # 0}

\* C13: when a throw or an error arrives at the setjmp of lisp_vm_run, the
\* stack count, vm->eval_level and vm->env are put back to what they were
\* when the run began (the count: above the three objects lisp_vm_run
\* saved).  Reading a file, lisp_vm_run then returns false and nothing more
\* is evaluated; reading a terminal, the rest of the line is dropped, the
\* loop goes on with the next line and lisp_vm_run returns true at the end
\* of the input.  When it returns, vm->catch and the stack count are those
\* of the call.
C13_TopLevelEscape ==
    /\ hist.top.n > 0 =>
          /\ hist.top.count = hist.entry.count + 3
          /\ hist.top.level = hist.entry.level
          /\ hist.top.env = hist.entry.env
    /\ (prog.kind # "try" /\ status \in {"done", "failed"}) =>
          /\ catch = hist.entry.catch
          /\ Len(stack) = hist.entry.count
          /\ ~InputIsATty => (status = "failed") = (hist.top.n = 1)
          /\ ~InputIsATty => hist.top.n <= 1
          /\ (status = "failed") => env = hist.entry.env /\ eval_level = hist.entry.level
    /\ (prog.kind = "top" /\ status \in {"done", "failed"}) =>
          IF prog.tty
          THEN /\ status = "done"
               /\ hist.top.n = Cardinality(RaisingLines(prog.lines))
               /\ Len(out) = CompletedOf(prog.lines)
          ELSE /\ (status = "failed") = (RaisingLines(prog.lines) # {})
               /\ Len(out) = Completed(Concat(prog.lines))

\* At a terminal, the first line raised an error inside a procedure call
\* with a form left behind it on the line, and the loop went on with the
\* second line and came to the end of the input.
C13_Witness ==
    /\ prog.kind = "top" /\ prog.tty
    /\ prog.lines = << <<"nest", "print">>, <<"print">> >>
    /\ status = "done"
    /\ hist.top.n = 1
    /\ hist.raised.code = 1
    /\ out = <<Num(1)>>

(***************************************************************************)
(* Closures made in a tail-recursive loop                                  *)
(***************************************************************************)
\* The environments in which i is bound to the number v.
EnvsBinding(v) ==
    {e \in 1 .. Len(envs) :
        \E b \in 1 .. Len(envs[e].bindings) :
            envs[e].bindings[b] = Binding("i", Num(v))}

\* C19: every iteration of a procedure that calls itself in tail position
\* binds its argument in an environment of its own, and the closure made in
\* the iteration whose argument was J still yields J when it is called
\* after the loop has ended.
C19_FreshEnvPerIteration ==
    (prog.kind = "closure" /\ status \in {"done", "failed"}) =>
        /\ status = "done"
        /\ \A v \in 0 .. prog.n : Cardinality(EnvsBinding(v)) = 1
        /\ Len(envs) = prog.n + 3
        /\ out = <<Num(prog.j)>>

\* The closure was made in the second of the iterations, in an environment
\* made for a tail call, two more iterations followed, and it was called.
C19_Witness ==
    /\ prog.kind = "closure" /\ prog.n = MaxIter /\ prog.j = MaxIter - 1
    /\ status = "done"
    /\ out = <<Num(MaxIter - 1)>>

(***************************************************************************)
(* The no_def flag of an environment                                       *)
(***************************************************************************)
\* op_define is evaluating the right-hand side of (define NAME EXPR).
DefineRunning ==
    \E i \in 1 .. Len(frames) : frames[i].fn = "op_define" /\ frames[i].pc = "val"

\* C20: no environment has no_def set unless the right-hand side of a define
\* is being evaluated, and a define that follows a define form left by a
\* throw or an error caught further out succeeds: the program prints y.
C20_NoDefOnlyDuringDefine ==
    /\ \A e \in 1 .. Len(envs) : envs[e].no_def => DefineRunning
    /\ (prog.kind = "nodef" /\ status \in {"done", "failed"}) =>
          /\ status = "done"
          /\ out = <<Num(2)>>

(***************************************************************************)
(* One thread per process                                                  *)
(***************************************************************************)
\* The workers that are between taking the process from the table and the
\* last statement of thread_main that touches it.
Executing == {w \in Workers : sc_thr[w].pc \in {"run", "end"}}

\* C14: at most one worker thread is executing the process.
C14_OneThreadPerProcess == Cardinality(Executing) <= 1

(***************************************************************************)
(* The lock-free FIFO                                                      *)
(***************************************************************************)
\* C16: with one writer and one reader and no lock, the bytes the reads
\* have returned are the first bytes the writes have accepted, in order,
\* and the bytes accepted and not yet read are never more than size - 1.
C16_FifoPrefix ==
    /\ Len(f_out) <= Len(f_in)
    /\ f_out = SubSeq(f_in, 1, Len(f_out))
    /\ Len(f_in) - Len(f_out) <= FifoSize - 1

\* The reader is copying a block that wraps around the end of the buffer
\* while the writer is about to store a byte of another, after more bytes
\* than the buffer holds have gone through.
C16_Witness ==
    /\ f_r.pc = "copy" /\ FifoSize - f_fifo.rpos < f_r.n
    /\ f_w.pc = "copy"
    /\ Len(f_in) > FifoSize
    /\ Len(f_out) > 0

(***************************************************************************)
(* The mailbox                                                             *)
(***************************************************************************)
\* The bytes the process has read are whole messages one after another:
\* a byte is followed by the next byte of its message, or it is the last
\* byte of a message that was posted with success and the first byte of
\* another message follows.
Contiguous(recv, msgs) ==
    /\ recv # <<>> => recv[1][2] = 1
    /\ \A i \in 1 .. Len(recv) - 1 :
          LET a == recv[i]
              b == recv[i + 1]
          IN \/ b[1] = a[1] /\ b[2] = a[2] + 1
             \/ /\ b[1] # a[1]
                /\ b[2] = 1
                /\ msgs[a[1]].res = "ok"
                /\ msgs[a[1]].len = a[2]

\* C15: a message is delivered all or nothing: the process reads no byte
\* of a message whose post reported failure (and no byte that no message
\* put there), and what it reads of the others is contiguous.
C15_AllOrNothing ==
    /\ \A i \in 1 .. Len(mb_hist.recv) :
          /\ mb_hist.recv[i][1] \in 1 .. Len(mb_hist.msgs)
          /\ mb_hist.msgs[mb_hist.recv[i][1]].res # "fail"
    /\ Contiguous(mb_hist.recv, mb_hist.msgs)

(***************************************************************************)
(* Printing and reading back                                               *)
(***************************************************************************)
\* C17: an object the reader has produced, printed and read back, is read
\* without error and is equal to the object printed.
C17_PrintReadRoundTrip ==
    rp_pc = "done" => rp_back.ok /\ rp_back.val = rp_val.val

(***************************************************************************)
(* Dictionary lookup                                                       *)
(***************************************************************************)
\* The first of the items whose key is `key', 0 when there is none: what a
\* scan of the entries in insertion order returns.
FirstEntry(items, pairs, key) ==
    IF \E i \in DOMAIN items : pairs[items[i]].car = key
    THEN items[CHOOSE i \in DOMAIN items :
                   /\ pairs[items[i]].car = key
                   /\ \A j \in 1 .. i - 1 : pairs[items[j]].car # key]
    ELSE 0

\* C21: after every sequence of dict, dict-set!, dict-unset! and clear,
\* lisp_dict_assoc returns for every key the first entry with that key in
\* insertion order, or none, whether it scans the items or walks the lookup
\* table of slot 0; and once the table is in use every item is in it.
C21_LookupIsLinearScan ==
    /\ \A key \in DOMAIN DictKeys :
           lisp_dict_assoc(d_dict, d_pairs, key)
               = FirstEntry(d_dict.items, d_pairs, key)
    /\ Len(d_dict.items) + 1 > DICT_LOOKUP_COUNT =>
           /\ d_dict.table.cap >= 2 * d_dict.cap
           /\ \A i \in DOMAIN d_dict.items :
                  \E e \in d_dict.table.used : e[2] = d_dict.items[i]

\* The lookup table has been built again after the items grew, a key is
\* found past the slot its hash gives, a key is held by two entries, and a
\* primitive has changed the dictionary since `dict' made it.
C21_Witness ==
    /\ d_dict.cap = 32
    /\ d_dict.table.cap = 64
    /\ d_last.op \in {"dict-set!", "dict-unset!"}
    /\ \E key \in DOMAIN DictKeys :
           /\ lookup(d_dict.table, d_pairs, key) # 0
           /\ lookup_first_slot(d_dict.table, d_pairs, key) = 0
    /\ \E i, j \in DOMAIN d_dict.items :
           i # j /\ d_pairs[d_dict.items[i]].car = d_pairs[d_dict.items[j]].car

\* C27: a key removed by dict-unset! and not set again since is reported as
\* a key the dictionary does not hold (dict-get gives undefined, exists?
\* false, get the error "Bad key"); and dict-unset! leaves the entries in
\* their order and every entry of another key with its value.
C27_RemovedKeyAbsent ==
    /\ d_last.key \in d_gone =>
           /\ d_last.op = "dict-get" => d_last.res = "undefined"
           /\ d_last.op = "exists?" => d_last.res = FALSE
           /\ d_last.op = "get" => ~d_last.res.ok
    /\ d_last.op = "dict-unset!" =>
           /\ Len(d_dict.items) = Len(d_last.before)
           /\ \A i \in DOMAIN d_dict.items :
                  /\ d_pairs[d_dict.items[i]].car = d_last.before[i].car
                  /\ d_last.before[i].car # d_last.key =>
                         d_pairs[d_dict.items[i]].cdr = d_last.before[i].cdr

(***************************************************************************)
(* define and set!                                                         *)
(***************************************************************************)
\* The frames from frame e outwards, innermost first.
RECURSIVE FrameChain(_, _)
FrameChain(es, e) ==
    IF e = 0 THEN <<>> ELSE <<e>> \o FrameChain(es, es[e].parent)

\* The bindings of a name in a frame, as indexes.
Bound(frame, name) ==
    {i \in DOMAIN frame.bindings : frame.bindings[i].name = name}

\* The nearest frame of the chain from e that binds the name, 0 for none.
Nearest(es, e, name) ==
    LET chain == FrameChain(es, e)
        hits == {k \in DOMAIN chain : Bound(es[chain[k]], name) # {}}
    IN IF hits = {} THEN 0
       ELSE chain[CHOOSE k \in hits : \A j \in hits : k <= j]

FirstBound(frame, name) ==
    CHOOSE i \in Bound(frame, name) : \A j \in Bound(frame, name) : i <= j

\* C22: define (and defconst) makes or updates the binding of the name in
\* the current frame alone and fails, changing nothing, when that frame
\* holds a constant binding of the name; set! updates in place the binding
\* of the nearest frame that has one and makes no binding, and fails,
\* changing nothing, when the name is unbound, when that binding is
\* constant or when that frame belongs to another VM.
C22_DefineAndSet ==
    LET b == en_last.envs
        e == en_last.env
        n == en_last.name
    IN /\ en_last.op \in {"define", "defconst"} =>
            IF Bound(b[e], n) # {} /\ b[e].bindings[FirstBound(b[e], n)].is_const
            THEN ~en_last.ok /\ en_envs = b
            ELSE /\ en_last.ok
                 /\ \A f \in DOMAIN b : f # e => en_envs[f] = b[f]
                 /\ DOMAIN en_envs = DOMAIN b
                 /\ en_envs[e].bindings =
                        IF Bound(b[e], n) = {}
                        THEN Append(b[e].bindings,
                                    [Binding(n, en_last.val) EXCEPT
                                        !.is_const = en_last.op = "defconst"])
                        ELSE [b[e].bindings EXCEPT
                                 ![FirstBound(b[e], n)].val = en_last.val,
                                 ![FirstBound(b[e], n)].is_const =
                                     en_last.op = "defconst"]
       /\ en_last.op = "set!" =>
            LET f == Nearest(b, e, n)
            IN IF \/ f = 0
                  \/ b[f].vm # ThisVm
                  \/ b[f].bindings[FirstBound(b[f], n)].is_const
               THEN ~en_last.ok /\ en_envs = b
               ELSE /\ en_last.ok
                    /\ en_envs =
                          [b EXCEPT ![f].bindings[FirstBound(b[f], n)].val =
                                        en_last.val]

\* set! has changed a binding of an enclosing frame of this VM whose name
\* the root environment of the parent VM binds as well, from a frame that
\* has no binding of it.
C22_Witness ==
    /\ en_last.op = "set!"
    /\ en_last.ok
    /\ Nearest(en_last.envs, en_last.env, en_last.name) # en_last.env
    /\ Bound(ParentRoot, en_last.name) # {}
    /\ en_envs # en_last.envs

(***************************************************************************)
(* The depth counter                                                       *)
(***************************************************************************)
\* The calls of eval_expr in progress: the frames of eval_expr past the
\* increment of vm->eval_level.
InProgress(fs) ==
    Cardinality({i \in DOMAIN fs : fs[i].fn = "eval_expr" /\ fs[i].pc # "start"})

\* A longjmp has landed in the function on top of the C stack, which has
\* not yet run its statements after setjmp.
Landed == frames # <<>> /\ frames[Len(frames)].pc = "caught"

\* C23: vm->eval_level is the number of calls of eval_expr in progress;
\* never more than MAX_DEPTH of them are in progress, the call that would be
\* one more raising "exceeding max depth"; and once catch has caught that
\* error the counter is again what it was before the catch, so that the
\* shallow evaluation that follows ends normally.
C23_DepthCounter ==
    /\ (status \in {"running", "done"} /\ ~Landed) =>
           eval_level = InProgress(frames)
    /\ InProgress(frames) <= MAX_DEPTH
    /\ hist.raised.code # 0 => err = "exceeding max depth"
    /\ status \notin {"failed", "aborted"}
    /\ status = "done" => Len(out) = 2 /\ out[2] = Num(2)

\* The calls have nested MAX_DEPTH deep below a catch that is itself
\* MaxNest procedure calls down, the catch has caught the error, and the
\* program has printed the sum it evaluates after that.
C23_Witness ==
    /\ prog.kind = "depth" /\ prog.d = MaxNest
    /\ status = "done"
    /\ hist.catch.n = 1 /\ hist.catch.how = 1
    /\ err = "exceeding max depth"
    /\ out[2] = Num(2)

\* The operations that add bytes to the buffer of an output port.
OutWrites == {"putc", "puts", "put_bytes", "printf"}

\* C24: on an output port that has a stream, once putc or puts has returned
\* the buffer holds fewer bytes than its capacity was (a buffer that filled
\* was flushed); once any write operation has returned the buffer is empty
\* when no_buf is set and it holds no newline that the operation wrote; and
\* once close has returned the buffer is empty: the bytes written before
\* these events have gone to the stream.
C24_FlushEvents ==
    /\ (o_last.op \in {"putc", "puts"} /\ o_last.stream) =>
           Len(o_port.buf) < o_last.cap
    /\ (o_last.op \in OutWrites /\ o_last.stream /\ o_port.no_buf) =>
           o_port.buf = <<>>
    /\ (o_last.op \in OutWrites /\ o_last.stream /\ HasNewline(o_last.text)) =>
           ~HasNewline(o_port.buf)
    /\ (o_last.op = "close" /\ o_last.stream) => o_port.buf = <<>>

\* C25: through a port with max_output > 0 the stream is never handed more
\* than max_output bytes.
C25_OutputCapped ==
    (o_last.op # "none" /\ o_port.max_output > 0) =>
        Len(o_sent) <= o_port.max_output

\* The operations of an input port that move or test the read cursor.
InOps == {"fill", "getc", "unget", "drain", "seek"}

\* C26: after each fill, getc, unget, drain and seek on an input port the
\* read cursor lies within the filled part of the buffer,
\* 0 <= input_pos <= iobuf->length, and a byte that getc returned was read
\* at a position below iobuf->length.
C26_CursorInBuffer ==
    /\ i_last.op \in InOps =>
           (0 <= i_port.pos /\ i_port.pos <= i_port.len)
    /\ (i_last.op = "getc" /\ i_last.ret # "EOF") =>
           i_last.at < i_last.filled

\* What the body of f returns for na arguments: argument k for the k-th
\* formal that has one, false for an &optional formal that has none.
ArgExpected(np, no, na) ==
    L([k \in 1 .. np + no |-> IF k <= na THEN Num(k) ELSE LISP_FALSE])

\* C28: applying f to fewer arguments than it has positional formals, or to
\* more than its positional and &optional formals take when it has no &rest
\* formal, raises an error tagged "f:" and the body does not run; otherwise
\* the body runs with every positional formal bound to its argument and
\* every &optional formal without an argument bound to false.
C28_ArityChecked ==
    (prog.kind = "args" /\ status # "running") =>
        IF prog.na < prog.np
        THEN status = "failed" /\ err = "f: missing arguments" /\ out = <<>>
        ELSE IF ~prog.rest /\ prog.na > prog.np + prog.no
        THEN status = "failed" /\ err = "f: too many arguments" /\ out = <<>>
        ELSE /\ status = "done"
             /\ out = <<Num(0), ArgExpected(prog.np, prog.no, prog.na)>>

\* C29: every collection an operation of the VM starts is started by
\* new_obj called with the pool full (count equal to cap); lisp_vm_gc, the
\* call of the host, collects between operations, when it is the only thing
\* the step does; and a step that starts no collection frees no object.
C29_GcAtSafePoint ==
    [][/\ \A k \in DOMAIN g_log' :
              \/ g_log'[k].by = "new_obj" /\ g_log'[k].count = g_log'[k].cap
              \/ /\ g_log'[k].by = "lisp_vm_gc"
                 /\ Len(g_log') = 1
                 /\ Len(g_heap') = Len(g_heap)
       /\ g_log' = <<>> => g_freed' = g_freed]_vars

\* An operation has found the pool full and collected, and objects were
\* freed.
C29_Witness ==
    /\ g_log # <<>>
    /\ g_log[1].by = "new_obj"
    /\ g_log[1].count = g_log[1].cap
    /\ g_freed # {}

(***************************************************************************)
(* C30: a spawned process starts only after the activation that spawned it *)
(* has finished; the code of a child is evaluated only while the owner of  *)
(* its parent VM is PENDING or DONE and evaluates nothing; and the parent  *)
(* evaluates code again only when every child of its earlier activations   *)
(* has finished.                                                           *)
(***************************************************************************)
Started30(k) == fa_hist.born[k] > 0 /\ fa_proc[k].state \notin {"NONE", "CREATED"}

Finished30(k) == fa_proc[k].state \in {"DONE", "SHUTDOWN", "NONE"}

StartsAfterSpawner ==
    \A k \in Kids : Started30(k) => fa_hist.done >= fa_hist.born[k]

ChildRunsWhileOwnerIdle ==
    \A w \in Workers, k \in Kids :
        Evaluating(w, k) =>
            /\ OwnerIdle(fa_proc[0].state)
            /\ \A v \in Workers : ~Evaluating(v, 0)

ParentAfterChildren ==
    \A w \in Workers, k \in Kids :
        Evaluating(w, 0) /\ fa_hist.born[k] > 0 /\ fa_hist.born[k] < fa_hist.acts
            => Finished30(k)

C30_ChildrenRunAlone ==
    fa_proc # <<>> =>
        /\ StartsAfterSpawner
        /\ ChildRunsWhileOwnerIdle
        /\ ParentAfterChildren

(***************************************************************************)
(* C31: the block of items of every array and dictionary has room for cap  *)
(* items, count <= cap, and every item written by an operation lies in     *)
(* the block as it is when the item is written.                            *)
(***************************************************************************)
C31_WritesInBlock ==
    ar_obj.kind \in {"array", "dict"} =>
        /\ ar_obj.slots >= ar_obj.cap
        /\ ar_obj.count <= ar_obj.cap
        /\ \A i \in DOMAIN ar_last.w : ar_last.w[i].at < ar_last.w[i].slots

(***************************************************************************)
(* C32: when a sweep deletes a port, its stream and its io buffer, the     *)
(* close of the port (flush, close of the stream) uses neither the buffer  *)
(* nor the stream after delete_obj has deleted it, in whichever order the  *)
(* three objects were allocated.                                           *)
(***************************************************************************)
C32_NoUseAfterDelete == p_freed.used = {}

(***************************************************************************)
(* C33: when an error or a throw escapes the function lisp_try runs, then  *)
(* at the return of lisp_try vm->env and vm->eval_level are what they were *)
(* at the call.                                                            *)
(***************************************************************************)
C33_TryRestoresEnvAndLevel ==
    (hist.try.n > 0 /\ hist.try.jmp # 0) =>
        /\ hist.try.e1 = hist.try.e0
        /\ hist.try.l1 = hist.try.l0

(***************************************************************************)
(* C34  A use of a macro evaluates, in the environment of the use, the     *)
(* form its body returned: what lisp_apply hands to lisp_eval after        *)
(* apply_procedure is no tail-call object, no tail-call object is ever     *)
(* given to lisp_eval_core as a form, and lisp_eval never returns one.     *)
(***************************************************************************)
C34_MacroEvaluatesForm ==
    /\ hist.macro.evald = 0
    /\ hist.macro.yielded = 0
    /\ hist.macro.n > 0 =>
          /\ ~HasFlag(hist.macro.form, "tail_call")
          /\ hist.macro.env1 = hist.macro.env0

(***************************************************************************)
(* C35  When the body of a catch is left by an error or a throw -- raised  *)
(* in the body of with-input or with-output, or by a read from a port --   *)
(* vm->input and vm->output are, once op_catch has returned, the ports     *)
(* they were when op_catch was called.                                     *)
(***************************************************************************)
C35_CatchRestoresPorts ==
    (hist.ports.n > 0 /\ hist.ports.jmp # 0) => hist.ports.io1 = hist.ports.io0

(***************************************************************************)
(* C36  A process that is RUNNABLE while a worker is idle (not inside      *)
(* run_vm) is eventually picked by a worker and becomes RUNNING, however   *)
(* long the activations on the other workers last.                         *)
(***************************************************************************)
WkIdleWorker == \E w \in Workers : wk_thr[w].pc # "run"

C36_RunnableIsPicked ==
    \A p \in WkProcs :
        (wk_state[p] = "RUNNABLE" /\ WkIdleWorker) ~> (wk_state[p] = "RUNNING")

C38_DeadParentIsShutDown ==
    (pd_w.pc # "run" /\ (pd_hist.failed \/ pd_hist.exited) /\ pd_kids = {})
        ~> (pd_state = "NONE")

\* The slots handed out and not shut down since are never in state NONE.
PtHeldNotNone == \A i \in PtTable : pt_held[i] # {} => pt_state[i] # "NONE"

\* No slot is held by two callers of twk_create_process.
PtOneHolder == \A i \in PtTable : Cardinality(pt_held[i]) <= 1

\* twk_get_process(pid) returns a slot only for the pid that was handed out
\* with it, and that pid is congruent to the slot index.
PtLookupExact ==
    \A pid \in 0 .. MaxNextPid :
        LET i == twk_get_process(pid)
        IN i # PtNoSlot /\ i # PtRoot =>
              /\ pid % PtSlots = i
              /\ \E c \in pt_held[i] : pt_call[c].slot = i /\ pt_call[c].pid = pid

(***************************************************************************)
(* C39  A slot handed out by twk_create_process is not handed out to a     *)
(* second caller and is not in state NONE before its process is shut down, *)
(* and twk_get_process(pid) returns only the live process that was given   *)
(* exactly that pid, whose slot index is pid mod MAX_PROCESS.              *)
(***************************************************************************)
C39_SlotHandedOutOnce ==
    /\ PtOneHolder
    /\ PtHeldNotNone
    /\ PtLookupExact

\* The sender uses no FIFO that has been deleted.
MfSenderSafe == "send" \notin mf_hist.stale

\* The receiver uses no FIFO that has been deleted.
MfReceiverSafe == "recv" \notin mf_hist.stale

\* The scheduler loop uses no FIFO that has been deleted.
MfLoopSafe == "sched" \notin mf_hist.stale

\* No thread calls a FIFO function on a NULL proc->mbox.
MfNoNull == mf_hist.null = {}

(***************************************************************************)
(* C40  No thread uses a mailbox FIFO after fifo_delete has released it:   *)
(* not a sender, not the scheduler loop, not the receiver, whether the     *)
(* FIFO was replaced by mbox_read or deleted by shutdown_process.          *)
(***************************************************************************)
C40_NoUseAfterDelete == mf_hist.stale = {}

=============================================================================
